---- MODULE Spec2Model ----
(***************************************************************************)
(* A model of hatop (src/installer/pythonscripts/hatopdemo.py): the        *)
(* interactive client of the HAProxy unix socket.                          *)
(*                                                                         *)
(* Text is modelled as a sequence of one-character strings, so that the    *)
(* framing of the socket stream and the matching of command lines are      *)
(* computed character by character, as the code does.                      *)
(*                                                                         *)
(* Specifications:                                                         *)
(*   SpecRecv   Socket.recv / Socket.wait reading one reply off the socket *)
(*   SpecParse  parse_stat applied to one show stat reply                  *)
(*   SpecCLI    ScreenCLI.execute on a typed command line                  *)
(*   Spec       the program: handshake, refreshes, key dispatcher, exit    *)
(*   SpecLive   Spec with weak fairness of the steps of the program        *)
(*   SpecKeys   the key dispatcher of mainloop on one selected row         *)
(*   SpecView   update_stat, update_data, update_lines and the stat view   *)
(*   SpecLimit  SpecView on replies around the limit of 100 services       *)
(*   SpecEdit   the input line and the output pane of the CLI, on a        *)
(*              terminal that is resized                                   *)
(*   SpecMain   the __main__ block: options, setup, mainloop, exit status  *)
(*   SpecSync   ScreenMode.sync: the widths of the columns of a mode       *)
(*   SpecFilter SocketData.update_stat with registered filters             *)
(*   SpecProxy  register_proxy_filter on one show stat reply               *)
(*   SpecCursor the cursor and the viewport of the stat view               *)
(*   SpecWinch  SIGWINCH and the steps of Screen.resize, with weak         *)
(*              fairness of the steps of resize                            *)
(*                                                                         *)
(* Each specification starts the part it is about and keeps the other      *)
(* parts idle.  Not modelled: the drawing of the terminal (pads, colours,  *)
(* the scrolling of a view longer than the window).  The cursor of the     *)
(* stat view is followed in SpecView, the size of the terminal and the     *)
(* wrapped copy of the CLI output in SpecEdit.                             *)
(***************************************************************************)
EXTENDS Integers, Sequences, FiniteSets, TLC

VARIABLES
    \* ---- Socket.recv / Socket.wait on one reply (SpecRecv) ----
    reply,        \* the bytes the peer sends for one command, prompt included
    replyLines,   \* the lines the peer put into the reply
    pos,          \* number of bytes of reply the socket has handed out
    routine,      \* "recv" or "wait": the method that is reading
    data,         \* the data returned by the last Socket._recv
    rbuf,         \* the local receive buffer of recv / wait
    linecount,    \* recv: number of lines yielded
    yielded,      \* recv: the lines yielded to the caller, in order
    rstate,       \* "running", "done" or "error" (SocketError)
    falsePrompt,  \* a read other than the last ended with the prompt text
    \* ---- parse_stat on one show stat reply (SpecParse) ----
    statReply,    \* the lines of the reply handed to parse_stat
    parsed,       \* what parse_stat returned or raised (NotParsed before)
    \* ---- the command line of the embedded CLI (SpecCLI) ----
    cli,          \* the ScreenCLI object: obuf, ihist, ibuf, ibpos, ibmin
    cliSent,      \* the command lines the CLI handed to Socket.send
    cliOp,        \* the branch the last execute took
    cliOps,       \* the number of calls of execute so far
    \* ---- the program: client, main loop, key dispatcher (Spec) ----
    pc,             \* where the program stands
    ro,             \* Socket.ro: the -n option
    filters,        \* the number of registered stat filters
    fidx,           \* update_stat: the filters queried so far
    cmid,           \* Screen._cmid
    pmid,           \* Screen._pmid
    hotkeys,        \* Screen.hotkeys
    tick,           \* mainloop: i
    update_stat,    \* mainloop: update_stat
    update_lines,   \* mainloop: update_lines
    update_display, \* mainloop: update_display
    sock,           \* the control socket and what went over it
    input,          \* the typed CLI line: "empty", "denied" or "other"
    exc,            \* the exception that ended the run, and where it rose
    exitcode,       \* the exit code, -1 while running
    lastKey,        \* the kind of key handled in the pass that just ended
                    \* ("tab" and "btab": the keys of cycle_mode)
    lastReply,      \* what obuf holds of the reply to the last execute_cmdline
    \* ---- the key dispatcher on one selected row (SpecKeys) ----
    hkScreen,     \* what the handler of a key works on and leaves behind
    hkRow,        \* screen.cstat: the row under the cursor
    hkKey,        \* the key handled last: what getch returned, and after ESC
    hkCount,      \* the number of keys handled so far
    \* ---- the stat view: data, lines and the passes of the loop (SpecView) ----
    vdata,        \* the SocketData object: pxcount, svcount, stat
    vscreen,      \* the Screen object
    vloop,        \* mainloop: where it stands, i and the update_* toggles
    vwarned,      \* the RuntimeWarning the last update_stat raised
    vacted,       \* a hotkey command ran since the last update_data
    \* ---- the editor and the output pane of the CLI (SpecEdit) ----
    ed,           \* the ScreenCLI object, screenlines and ypos included
    term,         \* the Screen object: xmax, ymax, _resized, dumbtty, mid
    tty,          \* the size of the terminal: what screen.getmaxyx() returns
    edOp,         \* the operation that ran last and how it ended
    edOps,        \* the number of operations so far
    \* ---- the __main__ block: options, handlers, exit code (SpecMain) ----
    mopts,        \* the options of the command line
    mrun,         \* where the block stands, what was raised, the exit code
    \* ---- the column widths of the modes (SpecSync) ----
    colw,         \* the width of every column of every mode
    shown,        \* the Screen object: xmax and mid, the mode shown
    synced,       \* the mode ScreenMode.sync ran on last, -1 before the first
    syncs,        \* the number of resizes and mode switches so far
    \* ---- update_stat with registered filters (SpecFilter) ----
    fdata,        \* the SocketData object: pxcount, svcount, stat, _filters
    fconf,        \* the rows the server held at the last update_stat
    fraised,      \* what the last update_stat raised, "none" if it returned
    fcalls,       \* the number of calls of update_stat so far
    \* ---- SocketData.register_proxy_filter (SpecProxy) ----
    preq,         \* the proxy names given with -p
    preply,       \* the rows of the reply to show stat
    preg,         \* the filters registered and the error raised, if any
    pdone,        \* register_proxy_filter was called
    \* ---- the cursor of the stat view (SpecCursor) ----
    cur,          \* the Screen object as far as the cursor of the stat view goes
    curOp,        \* the last operation on it
    curOps,       \* the number of operations so far
    \* ---- SIGWINCH and Screen.resize (SpecWinch) ----
    win,          \* Screen.resize in steps: pc, the _resized flag, the stored and the read size
    winTty,       \* the size of the terminal
    winSigs       \* the number of SIGWINCH delivered so far

recvVars == <<reply, replyLines, pos, routine, data, rbuf, linecount,
              yielded, rstate, falsePrompt>>

parseVars == <<statReply, parsed>>

cliVars == <<cli, cliSent, cliOp, cliOps>>

mainVars == <<pc, ro, filters, fidx, cmid, pmid, hotkeys, tick, update_stat,
              update_lines, update_display, sock, input, exc, exitcode,
              lastKey, lastReply>>

keyVars == <<hkScreen, hkRow, hkKey, hkCount>>

viewVars == <<vdata, vscreen, vloop, vwarned, vacted>>

edVars == <<ed, term, tty, edOp, edOps>>

runVars == <<mopts, mrun>>

syncVars == <<colw, shown, synced, syncs>>

filtVars == <<fdata, fconf, fraised, fcalls>>

proxVars == <<preq, preply, preg, pdone>>

curVars == <<cur, curOp, curOps>>

winVars == <<win, winTty, winSigs>>

vars == <<recvVars, parseVars, cliVars, mainVars, keyVars, viewVars, edVars,
         runVars, syncVars, filtVars, proxVars, curVars, winVars>>

\* What the actions of one part of the model leave alone.
notRecv == <<parseVars, cliVars, mainVars, keyVars, viewVars, edVars, runVars,
    syncVars, filtVars,
    proxVars, curVars, winVars>>
notParse == <<recvVars, cliVars, mainVars, keyVars, viewVars, edVars, runVars,
    syncVars, filtVars,
    proxVars, curVars, winVars>>
notCli == <<recvVars, parseVars, mainVars, keyVars, viewVars, edVars, runVars,
    syncVars, filtVars,
    proxVars, curVars, winVars>>
notMain == <<recvVars, parseVars, cliVars, keyVars, viewVars, edVars, runVars,
    syncVars, filtVars,
    proxVars, curVars, winVars>>
notKeys == <<recvVars, parseVars, cliVars, mainVars, viewVars, edVars, runVars,
    syncVars, filtVars,
    proxVars, curVars, winVars>>
notView == <<recvVars, parseVars, cliVars, mainVars, keyVars, edVars, runVars,
    syncVars, filtVars,
    proxVars, curVars, winVars>>
notEd == <<recvVars, parseVars, cliVars, mainVars, keyVars, viewVars, runVars,
    syncVars, filtVars,
    proxVars, curVars, winVars>>
notRun == <<recvVars, parseVars, cliVars, mainVars, keyVars, viewVars, edVars,
    syncVars, filtVars,
    proxVars, curVars, winVars>>
notSync == <<recvVars, parseVars, cliVars, mainVars, keyVars, viewVars, edVars,
    runVars, filtVars,
    proxVars, curVars, winVars>>
notFilt == <<recvVars, parseVars, cliVars, mainVars, keyVars, viewVars, edVars,
    runVars, syncVars,
    proxVars, curVars, winVars>>
notProx == <<recvVars, parseVars, cliVars, mainVars, keyVars, viewVars,
    edVars, runVars, syncVars, filtVars, curVars, winVars>>
notCur == <<recvVars, parseVars, cliVars, mainVars, keyVars, viewVars, edVars,
    runVars, syncVars, filtVars, proxVars, winVars>>
notWin == <<recvVars, parseVars, cliVars, mainVars, keyVars, viewVars, edVars,
    runVars, syncVars, filtVars, proxVars, curVars>>

(***************************************************************************)
(* Globals                                                                 *)
(***************************************************************************)
HAPROXY_CLI_BUFSIZE == 4096
HAPROXY_CLI_PROMPT == <<">", " ">>
HAPROXY_CLI_MAXLINES == 1000
CLI_MAXLINES == 1000
CLI_MAXHIST == 100
HAPROXY_STAT_MAX_SERVICES == 100
HAPROXY_STAT_NUMFIELDS == 50

NL == "\n"

\* Largest number of bytes one socket read hands out in the model.
MaxRead == 3
\* Short replies: at most MaxBody characters before the prompt.
MaxBody == 4
\* Long replies: HAPROXY_CLI_MAXLINES - 1 empty lines and up to MaxTail more.
MaxTail == 2
\* show stat replies: a run of server rows followed by up to MaxStatTail lines.
MaxStatTail == 2
MaxTokens == 3
MaxCliOps == 2
MaxFilters == 1
Iterations == 2
\* the keys handled on one selected row
MaxKeys == 2
\* the stat view: proxies and servers in a reply, warnings waiting for
\* update_lines
MaxProxies == 2
MaxServers == 1
MaxWarnings == 1

(***************************************************************************)
(* Text helpers                                                            *)
(***************************************************************************)
Min(a, b) == IF a < b THEN a ELSE b
Max(a, b) == IF a > b THEN a ELSE b

\* s.endswith(suffix)
EndsWith(s, suffix) ==
    /\ Len(s) >= Len(suffix)
    /\ SubSeq(s, Len(s) - Len(suffix) + 1, Len(s)) = suffix

\* s.startswith(prefix)
StartsWith(s, prefix) ==
    /\ Len(s) >= Len(prefix)
    /\ SubSeq(s, 1, Len(prefix)) = prefix

\* s[-k:] for k > 0
LastChars(s, k) == IF Len(s) <= k THEN s ELSE SubSeq(s, Len(s) - k + 1, Len(s))

\* s.find(c) + 1, or 0 when c does not occur in s
IndexOf(s, c) ==
    IF \E i \in 1..Len(s) : s[i] = c
    THEN CHOOSE i \in 1..Len(s) : s[i] = c /\ \A j \in 1..(i - 1) : s[j] # c
    ELSE 0

\* All sequences over S of length at most n
RECURSIVE SeqsUpTo(_, _)
SeqsUpTo(S, n) ==
    IF n = 0 THEN {<<>>}
    ELSE LET shorter == SeqsUpTo(S, n - 1)
         IN  shorter \cup {Append(s, x) : s \in shorter, x \in S}

\* The concatenation of the lines, each followed by a newline
RECURSIVE JoinLines(_)
JoinLines(lines) ==
    IF lines = <<>> THEN <<>>
    ELSE IF Len(lines) = 1 THEN lines[1] \o <<NL>>
    ELSE LET h == Len(lines) \div 2
         IN  JoinLines(SubSeq(lines, 1, h)) \o
             JoinLines(SubSeq(lines, h + 1, Len(lines)))

(***************************************************************************)
(* parse_stat                                                              *)
(*                                                                         *)
(* A line of a show stat reply is a record: `empty` (the line is ''),      *)
(* `comment` (it starts with '#'), `seps` (its number of ','), and the     *)
(* cells of its csv columns.  An integer cell is [k, v]: k = "int" (v is   *)
(* the number written), "empty" ('' ) or "bad" (text int() rejects).  The  *)
(* cell `qcur` stands for the integer columns the model does not name.     *)
(***************************************************************************)
EmptyMap == [x \in {} |-> 0]

IntCell(n) == [k |-> "int", v |-> n]
EmptyCell == [k |-> "empty", v |-> 0]
BadCell == [k |-> "bad", v |-> 0]

\* The key of a service in the table of its proxy: the literal svname of a
\* FRONTEND / BACKEND row, the numeric sid of any other row.
NameKey(name) == [k |-> "name", name |-> name, sid |-> 0]
SidKey(sid) == [k |-> "sid", name |-> "", sid |-> sid]

\* The integer columns in csv order (HAPROXY_STAT_CSV).
IntColumns == <<"qcur", "weight", "iid", "sid", "type">>

\* int(value, 10) of a non-empty cell, 0 for an empty one
IntOf(cell) == IF cell.k = "int" THEN cell.v ELSE 0

\* The svstat record of a line whose integer cells all parse.
SvStat(line) ==
    LET status == IF line.status = "no check" THEN "-" ELSE line.status
    IN  [pxname |-> line.pxname,
         svname |-> line.svname,
         qcur |-> IntOf(line.qcur),
         status |-> status,
         weight |-> IntOf(line.weight),
         iid |-> IntOf(line.iid),
         sid |-> IntOf(line.sid),
         type |-> IntOf(line.type),
         check_status |-> IF status = "-" THEN "none" ELSE line.check_status]

\* The number of service records a proxy table holds.
RECURSIVE Materialized(_)
Materialized(pxstat) ==
    IF DOMAIN pxstat = {} THEN 0
    ELSE LET iid == CHOOSE i \in DOMAIN pxstat : TRUE
         IN  Cardinality(DOMAIN pxstat[iid]) +
             Materialized([i \in DOMAIN pxstat \ {iid} |-> pxstat[i]])

\* "Skip further parsing?": the branch taken once svcount exceeds the limit.
SkipParsing(st) == st.svcount > HAPROXY_STAT_MAX_SERVICES

\* One pass of the loop of parse_stat.  st.err is the RuntimeError raised.
parse_line(st, line) ==
    IF line.empty \/ line.comment \/ line.seps < HAPROXY_STAT_NUMFIELDS
    THEN st
    ELSE IF SkipParsing(st)
    THEN IF line.iid.k # "int"
         THEN [st EXCEPT !.err = "garbage proxy identifier"]
         ELSE IF line.sid.k # "int"
         THEN [st EXCEPT !.err = "garbage service identifier"]
         ELSE IF line.iid.v \notin DOMAIN st.pxstat
         THEN [st EXCEPT !.pxcount = @ + 1, !.svcount = @ + 1]
         ELSE IF SidKey(line.sid.v) \notin DOMAIN st.pxstat[line.iid.v]
         THEN [st EXCEPT !.svcount = @ + 1]
         ELSE st
    ELSE IF \E i \in 1..Len(IntColumns) : line[IntColumns[i]].k = "bad"
    THEN [st EXCEPT !.err = "garbage field"]
    ELSE LET svstat == SvStat(line)
             iid == svstat.iid
             id == IF svstat.type = 0 \/ svstat.type = 1
                   THEN NameKey(svstat.svname)
                   ELSE SidKey(svstat.sid)
         IN  IF iid \in DOMAIN st.pxstat
             THEN [st EXCEPT !.pxstat = (iid :> ((id :> svstat) @@ st.pxstat[iid])) @@ @,
                             !.svcount = @ + 1]
             ELSE [st EXCEPT !.pxstat = (iid :> (id :> svstat)) @@ @,
                             !.pxcount = @ + 1,
                             !.svcount = @ + 1]

\* parse_stat(iterable): the loop over the lines, stopped by the first error;
\* nread is the number of lines taken from the iterable.
RECURSIVE parse_from(_, _, _)
parse_from(st, lines, n) ==
    IF n > Len(lines) \/ st.err # "" THEN st
    ELSE parse_from([parse_line(st, lines[n]) EXCEPT !.nread = n], lines, n + 1)

NotParsed ==
    [called |-> FALSE, pxstat |-> EmptyMap, pxcount |-> 0, svcount |-> 0,
     err |-> "", nread |-> 0]

parse_stat(lines) == parse_from([NotParsed EXCEPT !.called = TRUE], lines, 1)

\* The lines of the replies given to parse_stat.
BlankLine ==
    [empty |-> TRUE, comment |-> FALSE, seps |-> 0, pxname |-> "", svname |-> "",
     qcur |-> EmptyCell, status |-> "", weight |-> EmptyCell, iid |-> EmptyCell,
     sid |-> EmptyCell, type |-> EmptyCell, check_status |-> ""]
CommentLine == [BlankLine EXCEPT !.empty = FALSE, !.comment = TRUE,
                                 !.seps = HAPROXY_STAT_NUMFIELDS]
Row(pxname, svname, iid, sid, type) ==
    [empty |-> FALSE, comment |-> FALSE, seps |-> HAPROXY_STAT_NUMFIELDS,
     pxname |-> pxname, svname |-> svname, qcur |-> IntCell(0),
     status |-> "UP", weight |-> IntCell(1), iid |-> IntCell(iid),
     sid |-> IntCell(sid), type |-> IntCell(type), check_status |-> "L4OK"]
Frontend(pxname, iid) == Row(pxname, "FRONTEND", iid, 0, 0)
Backend(pxname, iid) == Row(pxname, "BACKEND", iid, 0, 1)
Server(pxname, svname, iid, sid) == Row(pxname, svname, iid, sid, 2)
Listener(pxname, svname, iid, sid) == Row(pxname, svname, iid, sid, 3)

\* A run of n server rows of proxy 1 with the sids 1..n.
ServerRun(n) == [i \in 1..n |-> Server("px1", "srv", 1, i)]

StatTailLines ==
    {BlankLine, CommentLine,
     [Server("px1", "srv", 1, 1) EXCEPT !.seps = HAPROXY_STAT_NUMFIELDS - 1],
     [Server("px1", "srv", 1, 1) EXCEPT !.seps = HAPROXY_STAT_NUMFIELDS + 1],
     Frontend("px1", 1), Backend("px1", 1),
     Server("px1", "srv", 1, 1), Listener("px1", "sock", 1, 1),
     Server("px2", "srv", 2, 1), Backend("px2", 2),
     [Server("px1", "srv", 1, 1) EXCEPT !.status = "no check"],
     [Server("px2", "srv", 2, 2) EXCEPT !.qcur = BadCell],
     [Server("px2", "srv", 2, 2) EXCEPT !.iid = EmptyCell],
     [Server("px2", "srv", 2, 2) EXCEPT !.sid = BadCell]}

StatReplies ==
    {ServerRun(n) \o t :
        n \in {0, HAPROXY_STAT_MAX_SERVICES - 1, HAPROXY_STAT_MAX_SERVICES,
               HAPROXY_STAT_MAX_SERVICES + 1},
        t \in SeqsUpTo(StatTailLines, MaxStatTail)}

\* The lines parse_stat accepts: not blank, no comment, enough separators.
Accepted(lines) ==
    {i \in 1..Len(lines) :
        /\ ~lines[i].empty /\ ~lines[i].comment
        /\ lines[i].seps >= HAPROXY_STAT_NUMFIELDS}

ParseInit ==
    /\ statReply \in StatReplies
    /\ parsed = NotParsed

ParseIdle ==
    /\ statReply = <<>>
    /\ parsed = NotParsed

\* pxstat, pxcount, svcount = parse_stat(lines)
DoParseStat ==
    /\ ~parsed.called
    /\ parsed' = parse_stat(statReply)
    /\ UNCHANGED statReply
    /\ UNCHANGED notParse

ParseNext == DoParseStat

(***************************************************************************)
(* ScreenCLI: the command line of the embedded CLI                         *)
(*                                                                         *)
(* cli is the ScreenCLI object: obuf and ihist are its ring buffers, ibuf  *)
(* the list of typed characters, ibpos the caret, ibmin the left edge of   *)
(* the input viewport.  cliSent is what the CLI handed to Socket.send,     *)
(* cliOp the branch the last call of execute took.  The pads and the       *)
(* wrapped copy of obuf (screenlines, ypos) are display state and are not  *)
(* part of this record.                                                    *)
(***************************************************************************)
HAPROXY_CLI_CMD_SEP == ";"

CLI_INPUT_DENY_CMD ==
    << <<"p", "r", "o", "m", "p", "t">>,
       <<"s", "e", "t", " ", "t", "i", "m", "e", "o", "u", "t", " ", "c", "l", "i">>,
       <<"q", "u", "i", "t">> >>

\* RingBuffer.append: a full buffer drops its oldest item.
RingAppend(buf, item, maxlen) ==
    IF Len(buf) = maxlen THEN Append(Tail(buf), item) ELSE Append(buf, item)

RECURSIVE RingExtend(_, _, _)
RingExtend(buf, items, maxlen) ==
    IF items = <<>> THEN buf
    ELSE RingExtend(RingAppend(buf, Head(items), maxlen), Tail(items), maxlen)

\* The characters \s of a pattern and str.strip() take for whitespace.
IsSpace(c) == c \in {" ", "\t", "\n", "\r", "\f"}

RECURSIVE LStrip(_)
LStrip(s) == IF s # <<>> /\ IsSpace(Head(s)) THEN LStrip(Tail(s)) ELSE s

RECURSIVE RStrip(_)
RStrip(s) ==
    IF s # <<>> /\ IsSpace(s[Len(s)]) THEN RStrip(SubSeq(s, 1, Len(s) - 1)) ELSE s

\* cmd.strip()
Strip(s) == RStrip(LStrip(s))

\* text.split(sep)
RECURSIVE Split(_, _)
Split(text, sep) ==
    LET i == IndexOf(text, sep)
    IN  IF i = 0 THEN <<text>>
        ELSE <<SubSeq(text, 1, i - 1)>> \o Split(SubSeq(text, i + 1, Len(text)), sep)

\* re.match(r'^\s*%s(?:\s|$)' % pattern, cmd)
DenyMatch(pattern, cmd) ==
    LET t == LStrip(cmd)
    IN  /\ StartsWith(t, pattern)
        /\ \/ Len(t) = Len(pattern)
           \/ IsSpace(t[Len(pattern) + 1])

\* cmds = [cmd.strip() for cmd in self.cmdline.split(HAPROXY_CLI_CMD_SEP)]
Statements(cmdline) ==
    LET parts == Split(cmdline, HAPROXY_CLI_CMD_SEP)
    IN  [i \in 1..Len(parts) |-> Strip(parts[i])]

\* Variant: a validation that looks at the first statement only.
ValidatedStatements_first(cmds) == {1}
\* The statements the validation loop of execute looks at: "for cmd in cmds".
ValidatedStatements(cmds) == 1..Len(cmds)

\* Variant: a validation that rejects nothing.
DeniedPairs_none(cmds) == {}
\* The pairs <<pattern, statement>> of the validation loop that match.
DeniedPairs(cmds) ==
    {pr \in (1..Len(CLI_INPUT_DENY_CMD)) \X ValidatedStatements(cmds) :
        DenyMatch(CLI_INPUT_DENY_CMD[pr[1]], cmds[pr[2]])}

\* The statement at which the loops (patterns outside, statements inside)
\* return; only used when DeniedPairs(cmds) is not empty.
FirstDenied(cmds) ==
    LET pairs == DeniedPairs(cmds)
        p == CHOOSE x \in {pr[1] : pr \in pairs} :
                \A y \in {pr[1] : pr \in pairs} : x <= y
        c == CHOOSE x \in {pr[2] : pr \in {q \in pairs : q[1] = p}} :
                \A y \in {pr[2] : pr \in {q \in pairs : q[1] = p}} : x <= y
    IN  cmds[c]

\* time.ctime(): 24 characters
CTime == [i \in 1..24 |-> "t"]

\* '- %s %s' % (time.ctime(), '-' * 50)
MarkerLine == <<"-", " ">> \o CTime \o <<" ">> \o [i \in 1..50 |-> "-"]

\* '* command not allowed: %s' % cmd
NotAllowedLine(cmd) ==
    <<"*", " ", "c", "o", "m", "m", "a", "n", "d", " ", "n", "o", "t", " ",
      "a", "l", "l", "o", "w", "e", "d", ":", " ">> \o cmd

\* ScreenCLI.reset_input
reset_input(c) == [c EXCEPT !.ibuf = <<>>, !.ibpos = 0, !.ibmin = 0]

\* ScreenCLI.execute_cmdline(cmdline): the lines of the reply that recv
\* yields go to obuf; ok is FALSE when recv then raises a SocketError.
execute_cmdline(c, cmdline, lines, ok) ==
    [cli |-> [c EXCEPT !.obuf =
                  RingExtend(@, << <<"*", " ">> \o CTime, <<">", " ">> \o cmdline >> \o lines,
                             CLI_MAXLINES)],
     sent |-> <<cmdline>>,
     op |-> IF ok THEN "sent" ELSE "raised"]

\* ScreenCLI.execute
execute(c, lines, ok) ==
    LET cmdline == c.ibuf
        cmds == Statements(cmdline)
    IN  IF Len(c.ibuf) = 0
        THEN [cli |-> [c EXCEPT !.obuf =
                          RingExtend(@, <<MarkerLine, <<>> >>, CLI_MAXLINES)],
              sent |-> <<>>,
              op |-> "marker"]
        ELSE IF DeniedPairs(cmds) # {}
        THEN [cli |-> [c EXCEPT !.obuf =
                          RingExtend(@, <<NotAllowedLine(FirstDenied(cmds)), <<>> >>,
                                     CLI_MAXLINES)],
              sent |-> <<>>,
              op |-> "rejected"]
        ELSE LET r == execute_cmdline(c, cmdline, lines, ok)
             IN  IF ~ok THEN r
                 ELSE [r EXCEPT !.cli = reset_input(
                          [r.cli EXCEPT !.ihist = RingAppend(@, c.ibuf, CLI_MAXHIST)])]

\* The words the typed command lines are made of.
CmdTokens ==
    {<<"q", "u", "i", "t">>, <<"Q", "u", "i", "t">>, <<"q", "u", "i", "t", "x">>,
     <<"p", "r", "o", "m", "p", "t">>,
     <<"s", "e", "t", " ", "t", "i", "m", "e", "o", "u", "t", " ", "c", "l", "i">>,
     <<"x">>, <<" ">>, <<";">>}

RECURSIVE Concat(_)
Concat(ss) == IF ss = <<>> THEN <<>> ELSE Head(ss) \o Concat(Tail(ss))

CmdLines == {Concat(ts) : ts \in SeqsUpTo(CmdTokens, MaxTokens)}

\* The replies to the commands of the CLI, as lines.
CliReplies == {<<>>, << <<"o", "k">> >>}

NewCli == [obuf |-> <<>>, ihist |-> <<>>, ibuf |-> <<>>, ibpos |-> 0, ibmin |-> 0]

CliIdle ==
    /\ cli = NewCli
    /\ cliSent = <<>>
    /\ cliOp = "none"
    /\ cliOps = 0

\* A CLI whose operator has run the line x before and has typed a command
\* line, the caret at its start or at its end.
CliInit ==
    /\ \E line \in CmdLines, caret \in {0, 1} :
          cli = [NewCli EXCEPT !.ibuf = line,
                               !.ibpos = IF caret = 0 THEN 0 ELSE Len(line),
                               !.ihist = << <<"x">> >>]
    /\ cliSent = <<>>
    /\ cliOp = "none"
    /\ cliOps = 0

\* ENTER in CLI mode: screen.cli.execute()
CliExecute ==
    /\ cliOps < MaxCliOps
    /\ cliOp # "raised"
    /\ \E lines \in CliReplies, ok \in BOOLEAN :
          LET r == execute(cli, lines, ok)
          IN  /\ cli' = r.cli
              /\ cliSent' = cliSent \o r.sent
              /\ cliOp' = r.op
    /\ cliOps' = cliOps + 1
    /\ UNCHANGED notCli

CliNext == CliExecute

(***************************************************************************)
(* Socket.wait and Socket.recv                                             *)
(***************************************************************************)

\* Variant: a wait that keeps nothing of the previous read.
wait_step_nokeep(buf, d) == d
\* One pass of the loop of Socket.wait with `d` read from the socket.
wait_step(buf, d) == LastChars(buf, Len(HAPROXY_CLI_PROMPT) - 1) \o d

\* Variant: an inner loop that yields one line beyond the cap.
RECURSIVE recv_lines_nocap(_, _, _)
recv_lines_nocap(buf, count, out) ==
    IF count <= HAPROXY_CLI_MAXLINES /\ IndexOf(buf, NL) > 0
    THEN LET i == IndexOf(buf, NL)
         IN  recv_lines_nocap(SubSeq(buf, i + 1, Len(buf)), count + 1,
                              Append(out, SubSeq(buf, 1, i - 1)))
    ELSE [lines |-> out, rbuf |-> buf, linecount |-> count]

\* The inner loop of Socket.recv: split complete lines off the buffer while the
\* line cap allows it.  Returns the lines yielded, the rest and the new count.
RECURSIVE recv_lines(_, _, _)
recv_lines(buf, count, out) ==
    IF count < HAPROXY_CLI_MAXLINES /\ IndexOf(buf, NL) > 0
    THEN LET i == IndexOf(buf, NL)
         IN  recv_lines(SubSeq(buf, i + 1, Len(buf)), count + 1,
                        Append(out, SubSeq(buf, 1, i - 1)))
    ELSE [lines |-> out, rbuf |-> buf, linecount |-> count]

\* One pass of the outer loop of Socket.recv with `d` read from the socket.
recv_step(buf, count, d) ==
    IF count = HAPROXY_CLI_MAXLINES
    THEN [lines |-> <<>>,
          rbuf |-> LastChars(buf, Len(HAPROXY_CLI_PROMPT) - 1) \o d,
          linecount |-> count]
    ELSE recv_lines(buf \o d, count, <<>>)

\* The bytes Socket._recv may return: at least one, at most the buffer size.
ReadSizes == 1..Min(Min(MaxRead, HAPROXY_CLI_BUFSIZE), Len(reply) - pos)

SawFalsePrompt(p) ==
    p < Len(reply) /\ EndsWith(SubSeq(reply, 1, p), HAPROXY_CLI_PROMPT)

\* Socket.recv: one socket read and the lines it lets the generator yield.
RecvRead ==
    /\ routine = "recv"
    /\ rstate = "running"
    /\ \E n \in ReadSizes :
         LET d == SubSeq(reply, pos + 1, pos + n)
             r == recv_step(rbuf, linecount, d)
         IN  /\ data' = d
             /\ pos' = pos + n
             /\ rbuf' = r.rbuf
             /\ linecount' = r.linecount
             /\ yielded' = yielded \o r.lines
             /\ rstate' = IF EndsWith(r.rbuf, HAPROXY_CLI_PROMPT)
                          THEN "done" ELSE "running"
             /\ falsePrompt' = (falsePrompt \/ SawFalsePrompt(pos + n))
    /\ UNCHANGED <<reply, replyLines, routine>>
    /\ UNCHANGED notRecv

\* Socket.wait: one socket read.
WaitRead ==
    /\ routine = "wait"
    /\ rstate = "running"
    /\ \E n \in ReadSizes :
         LET d == SubSeq(reply, pos + 1, pos + n)
             b == wait_step(rbuf, d)
         IN  /\ data' = d
             /\ pos' = pos + n
             /\ rbuf' = b
             /\ rstate' = IF EndsWith(b, HAPROXY_CLI_PROMPT)
                          THEN "done" ELSE "running"
             /\ falsePrompt' = (falsePrompt \/ SawFalsePrompt(pos + n))
    /\ UNCHANGED <<reply, replyLines, routine, linecount, yielded>>
    /\ UNCHANGED notRecv

\* Socket._recv with nothing left to read: the peer is silent (socket.timeout
\* after HAPROXY_CLI_CMD_TIMEOUT) or has closed (SocketError).
RecvFail ==
    /\ rstate = "running"
    /\ pos = Len(reply)
    /\ rstate' = "error"
    /\ data' = <<>>
    /\ UNCHANGED <<reply, replyLines, pos, routine, rbuf, linecount, yielded,
                   falsePrompt>>
    /\ UNCHANGED notRecv

\* The lines of a newline-terminated text.
RECURSIVE LinesOf(_)
LinesOf(text) ==
    IF IndexOf(text, NL) = 0 THEN <<>>
    ELSE LET i == IndexOf(text, NL)
         IN  <<SubSeq(text, 1, i - 1)>> \o LinesOf(SubSeq(text, i + 1, Len(text)))

\* The replies the peer may send: every newline-terminated text of at most
\* MaxBody characters, and long replies of HAPROXY_CLI_MAXLINES - 1 empty
\* lines followed by up to MaxTail more lines.
BodyChars == {"a", ">", " ", NL}
ShortReplies ==
    {LinesOf(b) : b \in {t \in SeqsUpTo(BodyChars, MaxBody) :
                            t = <<>> \/ EndsWith(t, <<NL>>)}}
TailLines == {<<"a">>, <<">", " ">>}
LongReplies ==
    {[i \in 1..(HAPROXY_CLI_MAXLINES - 1) |-> <<>>] \o t :
        t \in SeqsUpTo(TailLines, MaxTail)}

\* The peer ends a reply with the prompt, or closes the connection instead.
\* Socket.wait is only called by Socket.connect, on the handshake's replies.
RecvInit ==
    /\ routine \in {"recv", "wait"}
    /\ replyLines \in ShortReplies \cup LongReplies
    /\ routine = "wait" => replyLines \in ShortReplies
    /\ \E ending \in {HAPROXY_CLI_PROMPT, <<>>} :
         /\ ending = <<>> => replyLines \in ShortReplies
         /\ reply = JoinLines(replyLines) \o ending
    /\ pos = 0
    /\ data = <<>>
    /\ rbuf = <<>>
    /\ linecount = 0
    /\ yielded = <<>>
    /\ rstate = "running"
    /\ falsePrompt = FALSE

\* No reply is being read.
RecvIdle ==
    /\ reply = <<>> /\ replyLines = <<>> /\ pos = 0 /\ routine = "none"
    /\ data = <<>> /\ rbuf = <<>> /\ linecount = 0 /\ yielded = <<>>
    /\ rstate = "done" /\ falsePrompt = FALSE

RecvNext == RecvRead \/ WaitRead \/ RecvFail

(***************************************************************************)
(* The program: __main__, Socket.connect and close, the refreshes of       *)
(* SocketData, the mode switching of Screen and the key dispatcher of      *)
(* mainloop.                                                               *)
(*                                                                         *)
(* Commands are named by their kind.  sock records the socket and what     *)
(* went over it:                                                           *)
(*   peer     "none" (not connected), "alive", "closed" (end of stream)    *)
(*   waits    the waits for the prompt that connect has completed          *)
(*   pending  the commands sent whose prompt has not been read yet         *)
(*   admin    a command that changes the server or a CLI line was sent     *)
(*   early    the kinds of the commands sent before both waits completed   *)
(*   overlap  after the handshake, a command was sent while pending > 0    *)
(* A reply is read "ok" (up to its prompt), or the read fails with "eof"   *)
(* or "timeout".  The rows of a reply are summed up by what parse_stat and *)
(* parse_info make of them; a reply with a garbage field is left unread    *)
(* from the line at which parse_stat raises.                               *)
(***************************************************************************)
NewSocket ==
    [peer |-> "none", waits |-> 0, pending |-> 0, admin |-> FALSE,
     early |-> {}, overlap |-> FALSE]

\* The commands that change the server, and the lines typed in the CLI.
AdminCommands == {"set weight", "enable server", "disable server", "cli line"}

\* Socket.send
Socket_send(s, cmd) ==
    [s EXCEPT !.pending = @ + 1,
              !.admin = @ \/ cmd \in AdminCommands,
              !.early = IF s.waits < 2 THEN @ \cup {cmd} ELSE @,
              !.overlap = @ \/ (s.waits = 2 /\ s.pending > 0)]

\* Socket.recv / Socket.wait, run to their end
Socket_recv(s, out) ==
    CASE out = "ok" -> [s EXCEPT !.pending = @ - 1]
      [] out = "eof" -> [s EXCEPT !.peer = "closed"]
      [] out = "timeout" -> s

RecvOutcomes == {"ok", "eof", "timeout"}

SocketFailed(out) == out \in {"eof", "timeout"}

NoException == [kind |-> "none", at |-> "none"]

\* sys.exit codes of __main__
ExitCode(kind) ==
    CASE kind \in {"StopIteration", "KeyboardInterrupt", "SystemExit"} -> 0
      [] kind \in {"ValueError", "RuntimeError"} -> 1
      [] kind = "IndexError" -> 1
      [] kind = "SocketError" -> 2

\* The options __main__ accepts: -m in 1..5, and no -m 5 together with -n.
AcceptedOptions(mode, readonly) ==
    /\ 1 <= mode /\ mode <= 5
    /\ ~(readonly /\ mode = 5)

\* ---- key codes ----
AsciiKeys == {"SOH", "ETX", "TAB", "CR", "ESC", "SP", "DEL",
              "1", "2", "3", "4", "5", "q", "h", "x"}
FKeys == {"KEY_F4", "KEY_F5", "KEY_F6", "KEY_F7", "KEY_F8", "KEY_F9", "KEY_F10"}
CursesKeys ==
    {"KEY_ENTER", "KEY_BTAB", "KEY_UP", "KEY_DOWN", "KEY_HOME", "KEY_DC"} \cup FKeys
Keys == {"NONE"} \cup AsciiKeys \cup CursesKeys

\* The characters of 'qQHh?12345' among the keys.
SwitchChars == {"q", "h", "1", "2", "3", "4", "5"}

\* int(c) of a digit key
ModeOfKey(c) ==
    CASE c = "1" -> 1 [] c = "2" -> 2 [] c = "3" -> 3 [] c = "4" -> 4 [] c = "5" -> 5
      [] OTHER -> 0

\* The row screen.cstat gives: stat is FALSE for a line without a stat
\* record; named says that pxname and svname are not empty.  exists is
\* FALSE when the cursor stands past the last line: self.lines[self.vpos]
\* raises IndexError.
StatRow(iid, sid, named, weight) ==
    [exists |-> TRUE, stat |-> TRUE, iid |-> iid, sid |-> sid, named |-> named,
     weight |-> weight]
TextRow ==
    [exists |-> TRUE, stat |-> FALSE, iid |-> 0, sid |-> 0, named |-> FALSE,
     weight |-> 0]
NoRow == [TextRow EXCEPT !.exists = FALSE]

Rows ==
    {TextRow, NoRow, StatRow(1, 0, TRUE, 0)}
    \cup {StatRow(1, 1, TRUE, w) : w \in {0, 1, 256}}

\* The typed line as ScreenCLI.execute sees it: "empty" (no character),
\* "denied" (some statement matches a denied command) or "other".
InputKinds == {"empty", "denied", "other"}

\* What an edit can make of the line; typed is the kind the edit aims at.
\* A character more never empties the line and one character is no denied
\* command; a pasted pxname/svname cannot complete a denied command; one
\* character less leaves something of a denied line.
AfterInsert(kind, typed) ==
    IF kind = "empty" \/ typed = "empty" THEN "other" ELSE typed
AfterPaste(kind, typed) ==
    IF kind = "denied" /\ typed = "denied" THEN "denied" ELSE "other"
AfterDelete(kind, typed) ==
    IF kind = "empty" THEN "empty"
    ELSE IF kind = "denied" /\ typed = "empty" THEN "other"
    ELSE typed
\* The history holds lines that are not empty; without history nothing moves.
AfterHistory(kind, typed) == IF typed = "empty" THEN kind ELSE typed

\* ---- Screen: modes ----
\* Variant: a switch_mode without the read-only test.
SwitchNoop_never(mid, readonly) == FALSE
\* "if mid == 5 and self.data.socket.ro: return"
SwitchNoop(mid, readonly) == mid = 5 /\ readonly

\* Screen.switch_mode
switch_mode(st, mid) ==
    IF SwitchNoop(mid, ro) THEN st
    ELSE [st EXCEPT !.pmid = st.cmid, !.cmid = mid]

\* Screen.toggle_mode
toggle_mode(st) ==
    IF st.pmid = st.cmid THEN st ELSE switch_mode(st, st.pmid)

\* cycle_mode with the border of a session that is not read-only
cycle_mode_border5(st, n) ==
    IF n = 0 THEN st
    ELSE IF st.cmid = 0 THEN switch_mode(st, 1)
    ELSE IF n < 0 /\ st.cmid = 1 THEN switch_mode(st, 5)
    ELSE IF n > 0 /\ st.cmid = 5 THEN switch_mode(st, 1)
    ELSE switch_mode(st, st.cmid + n)

\* Screen.cycle_mode
cycle_mode(st, n) ==
    LET border == IF ro THEN 4 ELSE 5
    IN  IF n = 0 THEN st
        ELSE IF st.cmid = 0 THEN switch_mode(st, 1)
        ELSE IF n < 0 /\ st.cmid = 1 THEN switch_mode(st, border)
        ELSE IF n > 0 /\ st.cmid = border THEN switch_mode(st, 1)
        ELSE switch_mode(st, st.cmid + n)

\* ---- mainloop: the handling of one key ----
\* st is the state the handler works on; cont says that it left by
\* `continue`, raised names the exception it left by.
Continue(st) == [st EXCEPT !.cont = TRUE]
Raise(st, kind) == [st EXCEPT !.raised = kind]

\* Variant: hotkey actions without the read-only test.
AdminKeyAllowed_always(readonly) == TRUE
\* "if screen.data.socket.ro: continue" in front of the hotkey actions
AdminKeyAllowed(readonly) == ~readonly

\* A command line handed to execute_cmdline: its kind and, for a set weight,
\* the number written and whether a '%' follows it.  The names pxname/svname
\* in it are those of the selected row.
Cmdline(kind, weight, percent) ==
    [kind |-> kind, weight |-> weight, percent |-> percent]
NoCommand == Cmdline("none", 0, FALSE)
CliLine == Cmdline("cli line", 0, FALSE)

\* What obuf holds of the reply to a command line: "complete" (every line
\* up to the prompt), "cut" (the lines read before the read failed) or
\* "unread"; hotkey says that the line came from a hotkey, not from the CLI.
Logged(cmd, what) == [hotkey |-> cmd # CliLine, reply |-> what]
NoReply == [hotkey |-> FALSE, reply |-> "none"]

\* Variant: execute_cmdline sends the command line and leaves its reply
\* on the socket.
SendCommand_nowait(st, cmd, out) ==
    [st EXCEPT !.sock = Socket_send(st.sock, cmd.kind),
               !.sent = Append(@, cmd),
               !.logged = Append(@, Logged(cmd, "unread"))]

\* screen.cli.execute_cmdline(...) from a hotkey or from the CLI: the send,
\* and obuf.extend(recv()), which reads the reply up to its prompt before it
\* returns.  st.sent lists the command lines handed to Socket.send in this
\* pass, st.logged what obuf holds of the reply to each.
SendCommand(st, cmd, out) ==
    LET s == Socket_recv(Socket_send(st.sock, cmd.kind), out)
        t == [st EXCEPT !.sock = s, !.sent = Append(@, cmd),
                        !.logged = Append(@,
                            Logged(cmd, IF SocketFailed(out) THEN "cut"
                                        ELSE "complete"))]
    IN  IF SocketFailed(out) THEN Raise(t, "SocketError") ELSE t

\* The command line a hotkey F4..F10 builds from the selected row, NoCommand
\* where the branch leaves by `continue`.
HotkeyCmdline(c, row) ==
    LET curweight == row.weight
    IN  CASE c = "KEY_F4" -> Cmdline("set weight", 100, TRUE)
          [] c = "KEY_F5" ->
                IF curweight <= 0 THEN NoCommand
                ELSE Cmdline("set weight", Max(0, curweight - 10), FALSE)
          [] c = "KEY_F6" ->
                IF curweight <= 0 THEN NoCommand
                ELSE Cmdline("set weight", Max(0, curweight - 1), FALSE)
          [] c = "KEY_F7" ->
                IF curweight >= 256 THEN NoCommand
                ELSE Cmdline("set weight", Min(256, curweight + 1), FALSE)
          [] c = "KEY_F8" ->
                IF curweight >= 256 THEN NoCommand
                ELSE Cmdline("set weight", Min(256, curweight + 10), FALSE)
          [] c = "KEY_F9" -> Cmdline("enable server", 0, FALSE)
          [] c = "KEY_F10" -> Cmdline("disable server", 0, FALSE)

\* The hotkey commands F4..F10 on the selected row; notify is the local of
\* that name: the row is to be marked 'updating...'.
HotkeyCommand(st, c, row, out) ==
    LET cmd == HotkeyCmdline(c, row)
        t == SendCommand(st, cmd, out)
    IN  IF cmd = NoCommand THEN Continue(st)
        ELSE IF t.raised # "none" THEN t
        ELSE Continue([t EXCEPT !.notify = TRUE, !.update_display = TRUE])

\* Screen.mvc on a terminal that shows every line (vmin stays 0): cpos is the
\* cursor line, cmax the last line it can reach.
mvc(st, n) ==
    IF n > 0
    THEN IF st.cpos < st.cmax
         THEN [st EXCEPT !.cpos = Min(st.cmax, st.cpos + n)] ELSE st
    ELSE IF n < 0
    THEN IF st.cpos > 0 THEN [st EXCEPT !.cpos = Max(0, st.cpos + n)] ELSE st
    ELSE st

\* Screen.mvhome
mvhome(st) == [st EXCEPT !.cpos = 0]

\* STATUS / TRAFFIC / HTTP / ERRORS; chr says that c was turned into a
\* character (a str) on the way.
StatModeKey(st, c, chr, row, out, typed, pasted) ==
    IF c = "KEY_UP" THEN mvc(st, -1)
    ELSE IF c = "KEY_DOWN" THEN mvc(st, 1)
    ELSE IF c = "KEY_HOME" \/ (c = "SOH" /\ ~chr) THEN mvhome(st)
    ELSE IF c \in {"KEY_ENTER"} \cup FKeys \/ (chr /\ c \in {"CR", "SP"})
    THEN IF ~AdminKeyAllowed(ro) THEN Continue(st)
         ELSE IF ~row.exists THEN Raise(st, "IndexError")
         ELSE IF ~row.stat THEN Continue(st)
         ELSE IF c \in {"KEY_ENTER", "CR"}
         THEN Continue([st EXCEPT !.hotkeys = TRUE, !.update_display = TRUE])
         ELSE IF row.iid <= 0 \/ row.sid <= 0 THEN Continue(st)
         ELSE IF ~row.named THEN Continue(st)
         ELSE IF c = "SP"
         THEN IF pasted
              THEN Continue([switch_mode([st EXCEPT !.input =
                                              AfterPaste(@, typed)], 5)
                             EXCEPT !.update_display = TRUE])
              ELSE st
         ELSE HotkeyCommand(st, c, row, out)
    ELSE st

\* CLI; typed is what the line has become after an edit.
CliModeKey(st, c, chr, out, typed) ==
    IF c = "KEY_ENTER" \/ (c = "CR" /\ ~chr)
    THEN IF st.input = "other"
         THEN LET t == SendCommand(st, CliLine, out)
              IN  IF t.raised = "none" THEN [t EXCEPT !.input = "empty"] ELSE t
         ELSE st
    ELSE IF c = "KEY_HOME" \/ (c = "SOH" /\ ~chr) THEN st
    ELSE IF c = "KEY_DC" \/ (c = "DEL" /\ ~chr)
    THEN [st EXCEPT !.input = AfterDelete(@, typed)]
    ELSE IF c \in {"KEY_UP", "KEY_DOWN"}
    THEN [st EXCEPT !.input = AfterHistory(@, typed)]
    ELSE IF c \in AsciiKeys /\ ~chr
    THEN IF c \in {"1", "2", "3", "4", "5", "q", "h", "x", "SP"}
         THEN [st EXCEPT !.input = AfterInsert(@, typed)]
         ELSE st
    ELSE st

\* The mode branches and the end of the loop body.
ModeKey(st, c, chr, row, out, typed, pasted) ==
    LET t == IF st.cmid = 0 THEN st
             ELSE IF st.cmid \in 1..4
             THEN StatModeKey(st, c, chr, row, out, typed, pasted)
             ELSE CliModeKey(st, c, chr, out, typed)
    IN  IF t.cont \/ t.raised # "none" THEN t
        ELSE [t EXCEPT !.tick = @ + 1,
                       !.update_display =
                           @ \/ (~chr /\ (c \in {"KEY_UP", "KEY_DOWN"} \/
                                          (t.cmid # 5 /\ c \in {"SOH", "KEY_HOME"})))]

\* "if switch_mode:" and what follows it
SwitchKey(st, c, chr, switch, row, out, typed, pasted) ==
    IF switch /\ c = "q" THEN Raise(st, "StopIteration")
    ELSE IF switch /\ (ModeOfKey(c) # st.cmid \/ c = "h")
    THEN Continue([(IF c = "h" THEN switch_mode(st, 0)
                    ELSE switch_mode(st, ModeOfKey(c)))
                   EXCEPT !.update_display = TRUE])
    ELSE ModeKey(st, c, chr, row, out, typed, pasted)

\* Variant: a key leaves the hotkey footer as it is.
HotkeyToggle_keep(st, c) == st
\* "Toggle hotkey footer": a key other than F4..F10 takes the footer away.
HotkeyToggle(st, c) ==
    IF st.hotkeys /\ c \notin FKeys
    THEN [st EXCEPT !.hotkeys = FALSE, !.update_display = TRUE]
    ELSE st

\* The body of the loop from getch on; c2 is the key that follows an ESC.
HandleKey(st, c, c2, row, out, typed, pasted) ==
    IF c = "NONE" THEN [st EXCEPT !.tick = @ + 1]
    ELSE LET st1 == HotkeyToggle(st, c)
         IN  IF st.hotkeys /\ c \in {"KEY_ENTER", "CR"} THEN Continue(st1)
             ELSE IF c = "ETX" THEN Raise(st1, "KeyboardInterrupt")
             ELSE IF c = "ESC"
             THEN IF c2 \in {"NONE", "ESC"}
                  THEN Continue([toggle_mode(st1) EXCEPT !.update_display = TRUE])
                  ELSE IF c2 \in AsciiKeys
                  THEN SwitchKey(st1, c2, TRUE, c2 \in SwitchChars,
                                 row, out, typed, pasted)
                  ELSE SwitchKey(st1, c2, FALSE, FALSE, row, out, typed, pasted)
             ELSE IF c = "TAB"
             THEN Continue([cycle_mode(st1, 1) EXCEPT !.update_display = TRUE])
             ELSE IF c = "KEY_BTAB"
             THEN Continue([cycle_mode(st1, -1) EXCEPT !.update_display = TRUE])
             ELSE IF st1.cmid \in 0..4 /\ c \in AsciiKeys
             THEN SwitchKey(st1, c, TRUE, c \in SwitchChars, row, out, typed, pasted)
             ELSE SwitchKey(st1, c, FALSE, FALSE, row, out, typed, pasted)

\* ---- the steps of the program ----
RaiseAt(kind) ==
    /\ exc' = [kind |-> kind, at |-> pc]
    /\ pc' = "finally"

\* socket.connect(): the connection and the first send
Connect ==
    /\ pc = "connect"
    /\ \/ /\ sock' = Socket_send([sock EXCEPT !.peer = "alive"], "prompt")
          /\ pc' = "hs_wait1"
          /\ UNCHANGED exc
       \/ /\ RaiseAt("SocketError")
          /\ UNCHANGED sock
    /\ UNCHANGED <<ro, filters, fidx, cmid, pmid, hotkeys, tick, update_stat,
                   update_lines, update_display, input, exitcode,
                   lastKey, lastReply>>
    /\ UNCHANGED notMain

\* socket.connect(): self.wait()
HandshakeWait ==
    /\ pc \in {"hs_wait1", "hs_wait2"}
    /\ \E out \in RecvOutcomes :
          IF SocketFailed(out)
          THEN /\ sock' = Socket_recv(sock, out)
               /\ RaiseAt("SocketError")
          ELSE /\ sock' = [Socket_recv(sock, out) EXCEPT !.waits = @ + 1]
               /\ pc' = IF pc = "hs_wait1" THEN "hs_send2" ELSE "setup"
               /\ UNCHANGED exc
    /\ UNCHANGED <<ro, filters, fidx, cmid, pmid, hotkeys, tick, update_stat,
                   update_lines, update_display, input, exitcode,
                   lastKey, lastReply>>
    /\ UNCHANGED notMain

\* socket.connect(): self.send('set timeout cli %d' % HAPROXY_CLI_TIMEOUT)
HandshakeSend ==
    /\ pc = "hs_send2"
    /\ sock' = Socket_send(sock, "set timeout cli")
    /\ pc' = "hs_wait2"
    /\ UNCHANGED <<ro, filters, fidx, cmid, pmid, hotkeys, tick, update_stat,
                   update_lines, update_display, input, exc, exitcode,
                   lastKey, lastReply>>
    /\ UNCHANGED notMain

\* screen.setup(): fails on a terminal that is too small
Setup ==
    /\ pc = "setup"
    /\ \/ pc' = "register" /\ UNCHANGED exc
       \/ RaiseAt("RuntimeError")
    /\ UNCHANGED <<ro, filters, fidx, cmid, pmid, hotkeys, tick, update_stat,
                   update_lines, update_display, sock, input, exitcode,
                   lastKey, lastReply>>
    /\ UNCHANGED notMain

\* register_stat_filter and register_proxy_filter up to the 'show stat'
RegisterSend ==
    /\ pc = "register"
    /\ \/ /\ sock' = Socket_send(sock, "show stat")
          /\ pc' = "register_recv"
          /\ UNCHANGED exc
       \/ /\ filters > 0
          /\ RaiseAt("ValueError")
          /\ UNCHANGED sock
    /\ UNCHANGED <<ro, filters, fidx, cmid, pmid, hotkeys, tick, update_stat,
                   update_lines, update_display, input, exitcode,
                   lastKey, lastReply>>
    /\ UNCHANGED notMain

\* register_proxy_filter: parse_stat(self.socket.recv()) and the lookup
RegisterRecv ==
    /\ pc = "register_recv"
    /\ \E out \in RecvOutcomes,
          rows \in {"rows", "garbage"} \cup (IF filters > 0 THEN {"notfound"} ELSE {}) :
          IF rows = "garbage"
          THEN RaiseAt("RuntimeError") /\ UNCHANGED sock
          ELSE /\ sock' = Socket_recv(sock, out)
               /\ IF SocketFailed(out) THEN RaiseAt("SocketError")
                  ELSE IF rows = "notfound" THEN RaiseAt("RuntimeError")
                  ELSE pc' = "loop" /\ UNCHANGED exc
    /\ UNCHANGED <<ro, filters, fidx, cmid, pmid, hotkeys, tick, update_stat,
                   update_lines, update_display, input, exitcode,
                   lastKey, lastReply>>
    /\ UNCHANGED notMain

\* mainloop: the head of the loop body, up to "if update_stat:"
LoopTop ==
    /\ pc = "loop"
    /\ LET due == tick = Iterations
       IN  /\ tick' = IF due THEN 0 ELSE tick
           /\ update_stat' = (update_stat \/ due)
           /\ update_lines' = (update_lines \/ (due /\ cmid \in 1..4))
           /\ update_display' = (update_display \/ due)
           /\ pc' = IF update_display \/ due
                    THEN IF update_stat \/ due THEN "info_send" ELSE "draw"
                    ELSE "getch"
    /\ lastKey' = "none"
    /\ UNCHANGED <<ro, filters, fidx, cmid, pmid, hotkeys, sock, input, exc,
                   exitcode, lastReply>>
    /\ UNCHANGED notMain

\* update_info: self.socket.send('show info')
UpdateInfoSend ==
    /\ pc = "info_send"
    /\ sock' = Socket_send(sock, "show info")
    /\ pc' = "info_recv"
    /\ UNCHANGED <<ro, filters, fidx, cmid, pmid, hotkeys, tick, update_stat,
                   update_lines, update_display, input, exc, exitcode,
                   lastKey, lastReply>>
    /\ UNCHANGED notMain

\* update_info: parse_info(self.socket.recv())
UpdateInfoRecv ==
    /\ pc = "info_recv"
    /\ \E out \in RecvOutcomes, info \in {"complete", "missing"} :
          /\ sock' = Socket_recv(sock, out)
          /\ IF SocketFailed(out) THEN RaiseAt("SocketError") /\ UNCHANGED fidx
             ELSE IF info = "missing" THEN RaiseAt("RuntimeError") /\ UNCHANGED fidx
             ELSE pc' = "stat_send" /\ fidx' = 0 /\ UNCHANGED exc
    /\ UNCHANGED <<ro, filters, cmid, pmid, hotkeys, tick, update_stat,
                   update_lines, update_display, input, exitcode,
                   lastKey, lastReply>>
    /\ UNCHANGED notMain

\* update_stat: the send of 'show stat' or of 'show stat %d %d %d'
UpdateStatSend ==
    /\ pc = "stat_send"
    /\ sock' = Socket_send(sock, IF filters > 0 THEN "show stat filter" ELSE "show stat")
    /\ pc' = "stat_recv"
    /\ UNCHANGED <<ro, filters, fidx, cmid, pmid, hotkeys, tick, update_stat,
                   update_lines, update_display, input, exc, exitcode,
                   lastKey, lastReply>>
    /\ UNCHANGED notMain

\* update_stat: parse_stat(self.socket.recv()); the RuntimeWarning of an
\* unfiltered reply without rows is caught by update_data.
UpdateStatRecv ==
    /\ pc = "stat_recv"
    /\ \E out \in RecvOutcomes, rows \in {"rows", "garbage", "empty"} :
          IF rows = "garbage"
          THEN RaiseAt("RuntimeError") /\ UNCHANGED <<sock, fidx>>
          ELSE /\ sock' = Socket_recv(sock, out)
               /\ IF SocketFailed(out)
                  THEN RaiseAt("SocketError") /\ UNCHANGED fidx
                  ELSE IF filters > 0 /\ rows = "empty"
                  THEN RaiseAt("RuntimeError") /\ UNCHANGED fidx
                  ELSE /\ fidx' = IF filters > 0 THEN fidx + 1 ELSE fidx
                       /\ pc' = IF filters > 0 /\ fidx + 1 < filters
                                THEN "stat_send" ELSE "draw"
                       /\ UNCHANGED exc
    /\ UNCHANGED <<ro, filters, cmid, pmid, hotkeys, tick, update_stat,
                   update_lines, update_display, input, exitcode,
                   lastKey, lastReply>>
    /\ UNCHANGED notMain

\* mainloop: the rest of "if update_display:"
Draw ==
    /\ pc = "draw"
    /\ update_stat' = FALSE
    /\ update_lines' = FALSE
    /\ update_display' = FALSE
    /\ pc' = "getch"
    /\ UNCHANGED <<ro, filters, fidx, cmid, pmid, hotkeys, tick, sock, input, exc,
                   exitcode, lastKey, lastReply>>
    /\ UNCHANGED notMain

\* The inputs of one pass: the second getch happens after an ESC only, and
\* the row, the reply, the edited line and the paste are drawn where the
\* handler of the key consults them.  The cursor is not followed here: the
\* row it selects is drawn.
SecondKeys(c) == IF c = "ESC" THEN Keys ELSE {"NONE"}
EffectiveKey(c, c2) == IF c = "ESC" /\ c2 \notin {"NONE", "ESC"} THEN c2 ELSE c
AdminKeys == {"KEY_ENTER", "CR", "SP"} \cup FKeys
KeyKind(key) ==
    IF key = "NONE" THEN "none"
    ELSE IF key \in AdminKeys THEN "admin"
    ELSE IF key = "5" THEN "cli"
    ELSE "other"
RowsAt(mid, key) ==
    IF mid \in 1..4 /\ key \in AdminKeys THEN Rows
    ELSE {TextRow}
OutcomesAt(mid, key) ==
    IF (mid \in 1..4 /\ key \in FKeys) \/ (mid = 5 /\ key \in {"KEY_ENTER", "CR"})
    THEN RecvOutcomes ELSE {"ok"}
TypedAt(mid, key) ==
    IF mid = 5 \/ (mid \in 1..4 /\ key = "SP") THEN InputKinds ELSE {"empty"}
PastedAt(mid, key) == IF mid \in 1..4 /\ key = "SP" THEN BOOLEAN ELSE {FALSE}

\* mainloop: c = screen.getch() and the handling of c
KeyPress ==
    /\ pc = "getch"
    /\ \E c \in Keys :
       \E c2 \in SecondKeys(c) :
       \E row \in RowsAt(cmid, EffectiveKey(c, c2)),
          out \in OutcomesAt(cmid, EffectiveKey(c, c2)),
          typed \in TypedAt(cmid, EffectiveKey(c, c2)),
          pasted \in PastedAt(cmid, EffectiveKey(c, c2)) :
          LET st == [cmid |-> cmid, pmid |-> pmid, hotkeys |-> hotkeys,
                     tick |-> tick, update_display |-> update_display,
                     sock |-> sock, input |-> input, cpos |-> 0, cmax |-> 0,
                     sent |-> <<>>, logged |-> <<>>, notify |-> FALSE,
                     cont |-> FALSE,
                     raised |-> "none"]
              r == HandleKey(st, c, c2, row, out, typed, pasted)
          IN  /\ cmid' = r.cmid
              /\ pmid' = r.pmid
              /\ hotkeys' = r.hotkeys
              /\ tick' = r.tick
              /\ update_display' = r.update_display
              /\ sock' = r.sock
              /\ input' = r.input
              /\ lastKey' = IF c = "TAB" THEN "tab"
                             ELSE IF c = "KEY_BTAB" THEN "btab"
                             ELSE KeyKind(EffectiveKey(c, c2))
              /\ lastReply' = IF r.logged = <<>> THEN lastReply
                               ELSE r.logged[Len(r.logged)]
              /\ IF r.raised = "none"
                 THEN pc' = "loop" /\ UNCHANGED exc
                 ELSE pc' = "finally" /\ exc' = [kind |-> r.raised, at |-> "key"]
    /\ UNCHANGED <<ro, filters, fidx, update_stat, update_lines, exitcode>>
    /\ UNCHANGED notMain

\* SIGTERM: sys.exit(0) from the signal handler
SigTerm ==
    /\ pc \notin {"finally", "exited"}
    /\ RaiseAt("SystemExit")
    /\ UNCHANGED <<ro, filters, fidx, cmid, pmid, hotkeys, tick, update_stat,
                   update_lines, update_display, sock, input, exitcode,
                   lastKey, lastReply>>
    /\ UNCHANGED notMain

\* The except clauses and "finally: screen.reset(); socket.close()": the
\* quit goes out unless sendall fails.  The frames of mainloop and of
\* update_stat are gone by now, their locals are back at their first values.
Close ==
    /\ pc = "finally"
    /\ sock' = [(IF sock.peer = "alive" THEN Socket_send(sock, "quit") ELSE sock)
                EXCEPT !.peer = "none"]
    /\ exitcode' = ExitCode(exc.kind)
    /\ pc' = "exited"
    /\ tick' = 0
    /\ update_stat' = TRUE
    /\ update_lines' = TRUE
    /\ update_display' = TRUE
    /\ fidx' = 0
    /\ lastKey' = "none"
    /\ UNCHANGED <<ro, filters, cmid, pmid, hotkeys, input, exc, lastReply>>
    /\ UNCHANGED notMain

\* The program after the construction of Socket, SocketData and Screen.
MainInit ==
    /\ pc = "connect"
    /\ ro \in BOOLEAN
    /\ filters \in 0..MaxFilters
    /\ fidx = 0
    /\ cmid \in {m \in 1..5 : AcceptedOptions(m, ro)}
    /\ pmid = cmid
    /\ hotkeys = FALSE
    /\ tick = 0
    /\ update_stat = TRUE
    /\ update_lines = TRUE
    /\ update_display = TRUE
    /\ sock = NewSocket
    /\ input = "empty"
    /\ exc = NoException
    /\ exitcode = -1
    /\ lastKey = "none"
    /\ lastReply = NoReply

\* No program is running.
MainIdle ==
    /\ pc = "exited"
    /\ ro = FALSE
    /\ filters = 0
    /\ fidx = 0
    /\ cmid = 1
    /\ pmid = 1
    /\ hotkeys = FALSE
    /\ tick = 0
    /\ update_stat = TRUE
    /\ update_lines = TRUE
    /\ update_display = TRUE
    /\ sock = NewSocket
    /\ input = "empty"
    /\ exc = NoException
    /\ exitcode = 0
    /\ lastKey = "none"
    /\ lastReply = NoReply

Next ==
    \/ Connect
    \/ HandshakeWait
    \/ HandshakeSend
    \/ Setup
    \/ RegisterSend
    \/ RegisterRecv
    \/ LoopTop
    \/ UpdateInfoSend
    \/ UpdateInfoRecv
    \/ UpdateStatSend
    \/ UpdateStatRecv
    \/ Draw
    \/ KeyPress
    \/ SigTerm
    \/ Close

\* The steps the program takes by itself; getch never blocks (nodelay), so
\* the pass that reads the keyboard is one of them.  Which key getch
\* returns, if any, is up to the operator.
Steps ==
    \/ Connect \/ HandshakeWait \/ HandshakeSend \/ Setup
    \/ RegisterSend \/ RegisterRecv
    \/ LoopTop \/ UpdateInfoSend \/ UpdateInfoRecv
    \/ UpdateStatSend \/ UpdateStatRecv \/ Draw
    \/ KeyPress \/ Close

(***************************************************************************)
(* The key dispatcher on one selected row                                  *)
(*                                                                         *)
(* A session that is not read-only stands at getch with the cursor on the  *)
(* row hkRow and handles up to MaxKeys keys; nothing refreshes in between, *)
(* so the row stays what it is.  hkScreen is the record HandleKey works    *)
(* on; each pass starts with the locals of the pass at their first values  *)
(* and with the display painted (update_display FALSE).                    *)
(***************************************************************************)
\* The weights held by the rows: int(value, 10) accepts any integer.
Weights == {-11, -1, 0, 1, 9, 10, 11, 100, 246, 247, 255, 256, 257, 266, 267, 300}

\* The rows under the cursor: a line without stat record (proxy header, blank
\* line, banner), no line at all (the cursor stood on the third of three
\* banner lines and a refresh left two stat lines: update_lines keeps cpos),
\* the FRONTEND and BACKEND rows of a proxy (sid 0), a server whose names
\* are empty, and servers of every weight.
KeyRows ==
    {TextRow, NoRow, StatRow(1, 0, TRUE, 0), StatRow(1, 0, TRUE, 300),
     StatRow(1, 1, FALSE, 1)}
    \cup {StatRow(1, 1, TRUE, w) : w \in Weights}

\* A connected socket after the handshake.
ConnectedSocket == [NewSocket EXCEPT !.peer = "alive", !.waits = 2]

\* The screen at getch, painted, in mode mid.
ScreenAtGetch(mid) ==
    [cmid |-> mid, pmid |-> mid, hotkeys |-> FALSE, tick |-> 0,
     update_display |-> FALSE, sock |-> ConnectedSocket, input |-> "empty",
     cpos |-> 0, cmax |-> 0,
     sent |-> <<>>, logged |-> <<>>, notify |-> FALSE, cont |-> FALSE,
     raised |-> "none"]

\* The start of a pass: the locals of the pass, and the paint before getch.
PassStart(st) ==
    [st EXCEPT !.tick = 0, !.update_display = FALSE, !.sent = <<>>,
               !.notify = FALSE, !.cont = FALSE]

KeysInit ==
    /\ hkScreen \in {ScreenAtGetch(mid) : mid \in 0..5}
    /\ hkRow \in KeyRows
    /\ hkKey = <<"NONE", "NONE">>
    /\ hkCount = 0

KeysIdle ==
    /\ hkScreen = ScreenAtGetch(1)
    /\ hkRow = TextRow
    /\ hkKey = <<"NONE", "NONE">>
    /\ hkCount = 0

\* mainloop: c = screen.getch() and the handling of c on the row hkRow
HkKeyPress ==
    /\ hkCount < MaxKeys
    /\ hkScreen.raised = "none"
    /\ \E c \in Keys :
       \E c2 \in SecondKeys(c) :
       \E out \in OutcomesAt(hkScreen.cmid, EffectiveKey(c, c2)),
          typed \in TypedAt(hkScreen.cmid, EffectiveKey(c, c2)),
          pasted \in PastedAt(hkScreen.cmid, EffectiveKey(c, c2)) :
          /\ hkScreen' = HandleKey(PassStart(hkScreen), c, c2, hkRow, out, typed, pasted)
          /\ hkKey' = <<c, c2>>
    /\ hkCount' = hkCount + 1
    /\ UNCHANGED hkRow
    /\ UNCHANGED notKeys

KeysNext == HkKeyPress

(***************************************************************************)
(* The stat view: SocketData.update_stat, Screen.update_data,              *)
(* Screen.update_lines and the passes of mainloop that run them            *)
(*                                                                         *)
(* A session without filters that is not read-only, on a terminal that     *)
(* shows every line.  vdata is the SocketData object, vscreen the Screen   *)
(* object (modes, overlay flag, lines, queued warnings, cursor, the kind   *)
(* of the typed CLI line), vloop the locals of mainloop and the place the  *)
(* loop stands at.  Every reply arrives in full: the failures of the       *)
(* socket end the program and are followed in Spec.  vwarned is the        *)
(* warning the last update_stat raised, vacted says that a hotkey command  *)
(* ran since the last update_data.                                         *)
(***************************************************************************)
\* RuntimeWarning('no stat data available') and RuntimeWarning('config
\* changed: proxy %+d, service %+d (reloading...)' % (pxdiff, svdiff))
Warning(msg, pxdiff, svdiff) == [msg |-> msg, pxdiff |-> pxdiff, svdiff |-> svdiff]
NoWarning == Warning("none", 0, 0)
NoStatData == Warning("no stat data available", 0, 0)
ConfigChanged(pxdiff, svdiff) == Warning("config changed", pxdiff, svdiff)

\* Variant: a difference that does not ask whether there was an old count.
CountDiff_fromzero(old, new) == new - old
\* pxdiff and svdiff of update_stat: the loss always, the gain only over an
\* old count that was not zero.
CountDiff(old, new) ==
    (IF new < old THEN 0 - (old - new) ELSE 0)
    + (IF old > 0 /\ new > old THEN new - old ELSE 0)

\* SocketData.__init__
NewSocketData == [pxcount |-> 0, svcount |-> 0, stat |-> EmptyMap]

\* SocketData.update_stat without filters, p being what
\* parse_stat(self.socket.recv()) makes of the reply: the new data, the
\* RuntimeWarning raised (NoWarning if none) and the RuntimeError of
\* parse_stat, which leaves the data reset.
SocketData_update_stat(d, p) ==
    LET pxdiff == CountDiff(d.pxcount, p.pxcount)
        svdiff == CountDiff(d.svcount, p.svcount)
    IN  IF p.err # ""
        THEN [data |-> NewSocketData, warning |-> NoWarning,
              raised |-> "RuntimeError"]
        ELSE [data |-> [pxcount |-> p.pxcount, svcount |-> p.svcount,
                        stat |-> p.pxstat],
              warning |-> IF p.pxcount = 0 THEN NoStatData
                          ELSE IF pxdiff # 0 \/ svdiff # 0
                          THEN ConfigChanged(pxdiff, svdiff)
                          ELSE NoWarning,
              raised |-> "none"]

\* ---- ScreenLine ----
\* kind is "stat" (the line holds a stat record), "header" ('>>> pxname'),
\* "blank", "banner" (the text of a warning) or "limit" (a line of
\* HAPROXY_STAT_LIMIT_WARNING); message says that the stat record holds the
\* key 'message'.
NoSvStat == SvStat(BlankLine)
StatLine(svstat) ==
    [kind |-> "stat", text |-> "", stat |-> svstat, warn |-> NoWarning,
     message |-> FALSE]
TextLine(kind, text) ==
    [kind |-> kind, text |-> text, stat |-> NoSvStat, warn |-> NoWarning,
     message |-> FALSE]
BannerLine(w) == [TextLine("banner", w.msg) EXCEPT !.warn = w]

\* sorted() of a set of integers
RECURSIVE SortedSeq(_)
SortedSeq(S) ==
    IF S = {} THEN <<>>
    ELSE LET m == CHOOSE x \in S : \A y \in S : x <= y
         IN  <<m>> \o SortedSeq(S \ {m})

\* Some order of a set.
RECURSIVE SomeSeq(_)
SomeSeq(S) ==
    IF S = {} THEN <<>>
    ELSE LET m == CHOOSE x \in S : TRUE IN <<m>> \o SomeSeq(S \ {m})

\* The lines of one proxy in get_screenlines: FRONTEND, the services sorted
\* by key (the numeric sids before the names), BACKEND.
ProxyLines(svstats) ==
    LET fe == NameKey("FRONTEND")
        be == NameKey("BACKEND")
        rest == DOMAIN svstats \ {fe, be}
        sids == SortedSeq({x.sid : x \in {y \in rest : y.k = "sid"}})
        names == SomeSeq({y \in rest : y.k = "name"})
    IN  (IF fe \in DOMAIN svstats THEN <<StatLine(svstats[fe])>> ELSE <<>>)
        \o [i \in 1..Len(sids) |-> StatLine(svstats[SidKey(sids[i])])]
        \o [i \in 1..Len(names) |-> StatLine(svstats[names[i]])]
        \o (IF be \in DOMAIN svstats THEN <<StatLine(svstats[be])>> ELSE <<>>)

\* The loop of get_screenlines over the proxies iids[1], iids[2], ...
RECURSIVE screenlines_from(_, _)
screenlines_from(stat, iids) ==
    IF iids = <<>> THEN <<>>
    ELSE LET lines == ProxyLines(stat[Head(iids)])
         IN  (IF lines = <<>> THEN <<>>
              ELSE <<TextLine("header", lines[1].stat.pxname)>> \o lines
                   \o <<TextLine("blank", "")>>)
             \o screenlines_from(stat, Tail(iids))

\* get_screenlines(stat).  The proxies come in the order the dict gives
\* them, which for the small iids of the model is the order of the iids.
get_screenlines(stat) ==
    LET screenlines == screenlines_from(stat, SortedSeq(DOMAIN stat))
    IN  IF Len(screenlines) > 1
        THEN SubSeq(screenlines, 1, Len(screenlines) - 1)
        ELSE screenlines

\* What get_screenlines leaves of the stat it was given: it pops the
\* FRONTEND and BACKEND entries of every proxy.
PoppedStat(stat) ==
    [iid \in DOMAIN stat |->
        [id \in DOMAIN stat[iid] \ {NameKey("FRONTEND"), NameKey("BACKEND")} |->
            stat[iid][id]]]

\* HAPROXY_STAT_LIMIT_WARNING.splitlines()
LimitWarningLines ==
    <<TextLine("limit", "Warning: You have reached the stat parser limit! (100)"),
      TextLine("limit", "Use --filter to parse specific service stats only.")>>

\* Screen.__init__ with the mode of the option -m
NewScreen(mid) ==
    [cmid |-> mid, pmid |-> mid, hotkeys |-> FALSE, lines |-> <<>>,
     exceptions |-> <<>>, cursor |-> TRUE, cpos |-> 0, input |-> "empty"]

\* Screen.cmax on a terminal that shows every line
CMax(scr) == Len(scr.lines) - 1

\* Screen.update_data, p being what parse_stat makes of the reply to
\* 'show stat'; the reply to 'show info' is complete.
Screen_update_data(scr, d, p) ==
    LET r == SocketData_update_stat(d, p)
    IN  [screen |-> IF r.warning # NoWarning
                    THEN [scr EXCEPT !.exceptions = Append(@, r.warning)]
                    ELSE scr,
         data |-> r.data,
         warning |-> r.warning,
         raised |-> r.raised]

\* Variant: update_lines builds the lines from the data whatever is queued.
Screen_update_lines_noqueue(scr, d) ==
    [screen |-> [scr EXCEPT
                    !.cursor = TRUE,
                    !.lines = get_screenlines(d.stat)],
     data |-> [d EXCEPT !.stat = PoppedStat(@)]]

\* Screen.update_lines
Screen_update_lines(scr, d) ==
    IF scr.exceptions # <<>>
    THEN [screen |-> [mvhome(scr) EXCEPT
                         !.lines = [i \in 1..Len(scr.exceptions) |->
                                       BannerLine(scr.exceptions[i])],
                         !.cursor = FALSE,
                         !.exceptions = <<>>],
          data |-> d]
    ELSE [screen |-> [scr EXCEPT
                         !.cursor = TRUE,
                         !.lines = get_screenlines(d.stat) \o
                                   (IF d.svcount >= HAPROXY_STAT_MAX_SERVICES
                                    THEN <<TextLine("blank", "")>> \o LimitWarningLines
                                    ELSE <<>>)],
          data |-> [d EXCEPT !.stat = PoppedStat(@)]]

\* Screen.cstat as the key dispatcher reads it.
RowOf(line) ==
    IF line.kind = "stat"
    THEN StatRow(line.stat.iid, line.stat.sid,
                 line.stat.pxname # "" /\ line.stat.svname # "",
                 line.stat.weight)
    ELSE TextRow

\* The replies to 'show stat': npx proxies with their FRONTEND row, and nsv
\* servers in the first of them.
ViewReply(npx, nsv) ==
    [i \in 1..npx |-> Frontend(IF i = 1 THEN "px1" ELSE "px2", i)]
    \o (IF npx > 0 THEN [i \in 1..nsv |-> Server("px1", "srv", 1, i)] ELSE <<>>)

ViewReplies ==
    {ViewReply(npx, nsv) : npx \in 0..MaxProxies, nsv \in 0..MaxServers}
    \cup {<<[Server("px1", "srv", 1, 1) EXCEPT !.qcur = BadCell]>>}

\* The keys the operator of this session uses, and what may follow ESC.
ViewKeys == {"NONE", "KEY_DOWN", "KEY_F4", "ESC"}
ViewSecondKeys(c) == IF c = "ESC" THEN {"NONE", "1", "5", "h"} ELSE {"NONE"}

NewLoop ==
    [pc |-> "loop", i |-> 0, update_stat |-> TRUE, update_lines |-> TRUE,
     update_display |-> TRUE]

ViewInit ==
    /\ vdata = NewSocketData
    /\ vscreen \in {NewScreen(mid) : mid \in {1, 5}}
    /\ vloop = NewLoop
    /\ vwarned = NoWarning
    /\ vacted = FALSE

ViewIdle ==
    /\ vdata = NewSocketData
    /\ vscreen = NewScreen(1)
    /\ vloop = [NewLoop EXCEPT !.pc = "exited"]
    /\ vwarned = NoWarning
    /\ vacted = FALSE

\* mainloop from the head of the loop body to the paint: the interval test,
\* update_data, update_lines and the drawing; the server answers 'show stat'
\* with one of replies.
ViewRefreshOf(replies) ==
    /\ vloop.pc = "loop"
    /\ LET due == vloop.i = Iterations
           us == vloop.update_stat \/ due
           ul == vloop.update_lines \/ (due /\ vscreen.cmid \in 1..4)
           ud == vloop.update_display \/ due
           i == IF due THEN 0 ELSE vloop.i
       IN  IF ~ud
           THEN /\ vloop' = [vloop EXCEPT !.pc = "getch"]
                /\ UNCHANGED <<vdata, vscreen, vwarned, vacted>>
           ELSE \E lines \in (IF us THEN replies ELSE {<<>>}) :
                \E p \in {parse_stat(lines)} :
                \E r1 \in {IF us THEN Screen_update_data(vscreen, vdata, p)
                            ELSE [screen |-> vscreen, data |-> vdata,
                                  warning |-> vwarned, raised |-> "none"]} :
                \E r2 \in {IF ul /\ r1.raised = "none"
                            THEN Screen_update_lines(r1.screen, r1.data)
                            ELSE [screen |-> r1.screen, data |-> r1.data]} :
                   /\ Len(r2.screen.exceptions) <= MaxWarnings
                   /\ vdata' = r2.data
                   /\ vscreen' = r2.screen
                   /\ vwarned' = r1.warning
                   /\ vacted' = (vacted /\ ~us)
                   /\ vloop' =
                         IF r1.raised # "none"
                         THEN [vloop EXCEPT !.pc = "exited", !.i = i]
                         ELSE [pc |-> "getch", i |-> i, update_stat |-> FALSE,
                               update_lines |-> FALSE, update_display |-> FALSE]
    /\ UNCHANGED notView

ViewRefresh == ViewRefreshOf(ViewReplies)

\* The replies of a server with about HAPROXY_STAT_MAX_SERVICES services:
\* one proxy with its FRONTEND row and nsv servers.
LimitReplies ==
    {ViewReply(1, nsv) : nsv \in {HAPROXY_STAT_MAX_SERVICES - 2,
                                  HAPROXY_STAT_MAX_SERVICES - 1,
                                  HAPROXY_STAT_MAX_SERVICES,
                                  HAPROXY_STAT_MAX_SERVICES + 1}}

LimitRefresh == ViewRefreshOf(LimitReplies)

\* mainloop: c = screen.getch() and the handling of c; the hotkey command
\* marks the selected row with 'updating...'.
ViewKeyOf(keys) ==
    /\ vloop.pc = "getch"
    /\ \E c \in keys :
       \E c2 \in ViewSecondKeys(c) :
          LET st == [cmid |-> vscreen.cmid, pmid |-> vscreen.pmid,
                     hotkeys |-> vscreen.hotkeys, tick |-> vloop.i,
                     update_display |-> vloop.update_display,
                     sock |-> ConnectedSocket, input |-> vscreen.input,
                     cpos |-> vscreen.cpos, cmax |-> CMax(vscreen),
                     sent |-> <<>>, logged |-> <<>>, notify |-> FALSE,
                     cont |-> FALSE,
                     raised |-> "none"]
              row == IF vscreen.cpos < Len(vscreen.lines)
                     THEN RowOf(vscreen.lines[vscreen.cpos + 1])
                     ELSE NoRow
          IN  \E r \in {HandleKey(st, c, c2, row, "ok", "empty", FALSE)} :
              /\ vscreen' = [vscreen EXCEPT
                                !.cmid = r.cmid, !.pmid = r.pmid,
                                !.hotkeys = r.hotkeys, !.input = r.input,
                                !.cpos = r.cpos,
                                !.lines = IF r.notify
                                          THEN [@ EXCEPT ![vscreen.cpos + 1].message = TRUE]
                                          ELSE @]
              /\ vloop' = [vloop EXCEPT
                              !.pc = IF r.raised = "none" THEN "loop" ELSE "exited",
                              !.i = r.tick,
                              !.update_display = r.update_display]
              /\ vacted' = (vacted \/ r.notify)
    /\ UNCHANGED <<vdata, vwarned>>
    /\ UNCHANGED notView

ViewKey == ViewKeyOf(ViewKeys)

\* The operator who watches the long view and switches the modes.
LimitKey == ViewKeyOf({"NONE", "ESC"})

ViewNext == ViewRefresh \/ ViewKey

LimitNext == LimitRefresh \/ LimitKey

(***************************************************************************)
(* ScreenCLI: the editor of the command line and the output pane           *)
(*                                                                         *)
(* ed is the ScreenCLI object with its display state: screenlines is the   *)
(* wrapped copy of obuf, ypos the line below the last one shown.  term is  *)
(* the Screen object as far as the CLI reads it (the stored size, the      *)
(* _resized flag, dumbtty, the mode), tty the size curses reports.  One    *)
(* action is one pass of mainloop: the resize at its top when the size     *)
(* changed, else the handler of one key.                                   *)
(***************************************************************************)
CLI_INPUT_LIMIT == 200
SCREEN_XMIN == 78
SCREEN_YMIN == 20
SCREEN_XMAX == 200
SCREEN_YMAX == 100
SCREEN_HPOS == 11

\* CLI_INPUT_RE: the characters matched by [a-zA-Z0-9_:\.\-\+; /#%]
CLI_INPUT_RE ==
    {"a", "b", "c", "d", "e", "f", "g", "h", "i", "j", "k", "l", "m",
     "n", "o", "p", "q", "r", "s", "t", "u", "v", "w", "x", "y", "z",
     "A", "B", "C", "D", "E", "F", "G", "H", "I", "J", "K", "L", "M",
     "N", "O", "P", "Q", "R", "S", "T", "U", "V", "W", "X", "Y", "Z",
     "0", "1", "2", "3", "4", "5", "6", "7", "8", "9",
     "_", ":", ".", "-", "+", ";", " ", "/", "#", "%"}

\* The operations handled in a session of the editor.
MaxEdOps == 3

\* ScreenCLI.ispan: imax - imin, with screen.xmin == 0
ispan(xmax) == (xmax - 4) - (0 + 2)

\* ScreenCLI.ibmax
ibmax(c, xmax) == c.ibmin + ispan(xmax)

\* ScreenCLI.ospan: screen.span - 1, span being smax - smin
ospan(ymax) == ((ymax - 3) - (SCREEN_HPOS + 2)) - 1

\* ScreenCLI.mvc
ScreenCLI_mvc(c, n, xmax) ==
    IF n = 0 THEN c
    ELSE IF n < 0
    THEN LET p == Max(0, c.ibpos + n)
         IN  [c EXCEPT !.ibpos = p, !.ibmin = IF p < c.ibmin THEN p ELSE @]
    ELSE LET p == Min(Len(c.ibuf), c.ibpos + n)
         IN  [c EXCEPT !.ibpos = p,
                       !.ibmin = IF p > ibmax(c, xmax) THEN @ + n ELSE @]

\* ScreenCLI.mvhome
ScreenCLI_mvhome(c) == [c EXCEPT !.ibmin = 0, !.ibpos = 0]

\* ScreenCLI.mvend
ScreenCLI_mvend(c, xmax) ==
    [c EXCEPT !.ibmin = Max(0, Len(c.ibuf) - ispan(xmax)), !.ibpos = Len(c.ibuf)]

\* list[:i] + s + list[i:]
InsertAt(buf, i, s) == SubSeq(buf, 1, i) \o s \o SubSeq(buf, i + 1, Len(buf))

\* list.pop(i)
PopAt(buf, i) == SubSeq(buf, 1, i) \o SubSeq(buf, i + 2, Len(buf))

\* ScreenCLI.puts(s): ok is what it returns (None counts as FALSE)
puts(c, s, xmax) ==
    IF Len(c.ibuf) + Len(s) >= CLI_INPUT_LIMIT
    THEN [cli |-> c, ok |-> FALSE]
    ELSE IF \E i \in 1..Len(s) : s[i] \notin CLI_INPUT_RE
    THEN [cli |-> c, ok |-> FALSE]
    ELSE [cli |-> ScreenCLI_mvc([c EXCEPT !.ibuf = InsertAt(@, c.ibpos, s)],
                                Len(s), xmax),
          ok |-> TRUE]

\* putc without its test of the length
putc_nolimit(c, ch, xmax) ==
    IF ch \notin CLI_INPUT_RE THEN c
    ELSE ScreenCLI_mvc([c EXCEPT !.ibuf = InsertAt(@, c.ibpos, <<ch>>)], 1, xmax)

\* ScreenCLI.putc(c)
putc(c, ch, xmax) ==
    IF Len(c.ibuf) = CLI_INPUT_LIMIT THEN c
    ELSE IF ch \notin CLI_INPUT_RE THEN c
    ELSE ScreenCLI_mvc([c EXCEPT !.ibuf = InsertAt(@, c.ibpos, <<ch>>)], 1, xmax)

\* ScreenCLI.delc(n)
delc(c, n, xmax) ==
    IF n = 0 \/ Len(c.ibuf) = 0 THEN c
    ELSE IF n < 0 /\ c.ibpos >= 1
    THEN ScreenCLI_mvc([c EXCEPT !.ibuf = PopAt(@, c.ibpos - 1)], -1, xmax)
    ELSE IF n > 0 /\ c.ibpos < Len(c.ibuf)
    THEN [c EXCEPT !.ibuf = PopAt(@, c.ibpos)]
    ELSE c

\* RingBuffer.rotate(1) and rotate(-1)
RotateRight(buf) ==
    IF buf = <<>> THEN buf ELSE <<buf[Len(buf)]>> \o SubSeq(buf, 1, Len(buf) - 1)
RotateLeft(buf) ==
    IF buf = <<>> THEN buf ELSE Tail(buf) \o <<Head(buf)>>

\* ScreenCLI.prev
prev(c, xmax) ==
    IF Len(c.ihist) = 0 THEN c
    ELSE IF Len(c.ibuf) = 0
    THEN ScreenCLI_mvend([c EXCEPT !.ibuf = c.ihist[Len(c.ihist)]], xmax)
    ELSE LET kept == IF c.ibuf # c.ihist[Len(c.ihist)]
                     THEN RingAppend(c.ihist, c.ibuf, CLI_MAXHIST)
                     ELSE c.ihist
             hist == RotateRight(kept)
         IN  ScreenCLI_mvend([c EXCEPT !.ihist = hist, !.ibuf = hist[Len(hist)]],
                             xmax)

\* ScreenCLI.next
next(c, xmax) ==
    IF Len(c.ihist) = 0 THEN c
    ELSE LET hist == RotateLeft(c.ihist)
         IN  ScreenCLI_mvend([c EXCEPT !.ihist = hist, !.ibuf = hist[Len(hist)]],
                             xmax)

\* TextWrapper.wrap(line) for a line longer than the width whose only
\* blanks stand before its one long word: the text cut every width
\* characters.
RECURSIVE wrap(_, _)
wrap(line, width) ==
    IF Len(line) <= width THEN <<line>>
    ELSE <<SubSeq(line, 1, width)>> \o wrap(SubSeq(line, width + 1, Len(line)), width)

\* The loop of update_screenlines over obuf
RECURSIVE WrappedLines(_, _)
WrappedLines(obuf, width) ==
    IF obuf = <<>> THEN <<>>
    ELSE (IF Len(Head(obuf)) > width THEN wrap(Head(obuf), width) ELSE <<Head(obuf)>>)
         \o WrappedLines(Tail(obuf), width)

\* ScreenCLI.update_screenlines without its last statement
update_screenlines_keepypos(c, xmax) ==
    [c EXCEPT !.screenlines = WrappedLines(c.obuf, xmax)]

\* ScreenCLI.update_screenlines
update_screenlines(c, xmax) ==
    LET lines == WrappedLines(c.obuf, xmax)
    IN  [c EXCEPT !.screenlines = lines, !.ypos = Len(lines)]

\* ScreenCLI.mvo
mvo(c, n, ymax) ==
    IF n = 0 THEN c
    ELSE IF n < 0 /\ c.ypos > ospan(ymax)
    THEN [c EXCEPT !.ypos = Max(ospan(ymax), c.ypos + n)]
    ELSE IF n > 0 /\ c.ypos < Len(c.screenlines)
    THEN [c EXCEPT !.ypos = Min(Len(c.screenlines), c.ypos + n)]
    ELSE c

\* ScreenCLI.execute with the update_screenlines of its three branches; the
\* branch that raises leaves execute_cmdline before update_screenlines.
ScreenCLI_execute(c, xmax, lines, ok) ==
    LET r == execute(c, lines, ok)
    IN  IF r.op = "raised" THEN r
        ELSE [r EXCEPT !.cli = update_screenlines(@, xmax)]

\* ScreenCLI.execute_cmdline with its update_screenlines
ScreenCLI_execute_cmdline(c, cmdline, xmax, lines, ok) ==
    LET r == execute_cmdline(c, cmdline, lines, ok)
    IN  IF r.op = "raised" THEN r
        ELSE [r EXCEPT !.cli = update_screenlines(@, xmax)]

\* CLI_HELP_TEXT.split('\n'): two lines of text, each followed by an empty one
CLI_HELP_TEXT ==
    << [i \in 1..63 |-> IF i <= 13 THEN " " ELSE "w"], <<>>,
       [i \in 1..56 |-> IF i <= 18 THEN " " ELSE "t"], <<>> >>

\* ScreenCLI.__init__ followed by ScreenCLI.setup at the width of
\* Screen.__init__
NewScreenCLI ==
    update_screenlines(
        [obuf |-> CLI_HELP_TEXT, ihist |-> <<>>, ibuf |-> <<>>, ibpos |-> 0,
         ibmin |-> 0, screenlines |-> <<>>, ypos |-> 0],
        SCREEN_XMIN)

\* Screen.__init__ as far as the CLI reads it; setup decides dumbtty.
NewTerm(dumb, mid) ==
    [xmax |-> SCREEN_XMIN, ymax |-> SCREEN_YMIN, resized |-> TRUE,
     dumbtty |-> dumb, mid |-> mid]

\* getmaxyx without the two min()
getmaxyx_noclamp(t) == [ymax |-> t.ymax, xmax |-> t.xmax]

\* Screen.getmaxyx
getmaxyx(t) == [ymax |-> Min(t.ymax, SCREEN_YMAX), xmax |-> Min(t.xmax, SCREEN_XMAX)]

\* Screen.resized
resized(scr, t) ==
    IF scr.dumbtty
    THEN getmaxyx(t).ymax # scr.ymax \/ getmaxyx(t).xmax # scr.xmax
    ELSE scr.resized

\* Screen.resize: raised is TRUE when it raises RuntimeError
resize(scr, c, t) ==
    LET m == getmaxyx(t)
    IN  IF m.xmax < SCREEN_XMIN \/ m.ymax < SCREEN_YMIN
        THEN [scr |-> scr, cli |-> c, raised |-> TRUE]
        ELSE IF m.ymax = scr.ymax /\ m.xmax = scr.xmax
        THEN [scr |-> [scr EXCEPT !.resized = FALSE], cli |-> c, raised |-> FALSE]
        ELSE [scr |-> [scr EXCEPT !.xmax = m.xmax, !.ymax = m.ymax,
                                  !.resized = FALSE],
              cli |-> IF scr.mid = 5 THEN update_screenlines(c, m.xmax) ELSE c,
              raised |-> FALSE]

\* The sizes of the terminal: the smallest accepted one, 80x25, one beyond
\* both maxima, one too narrow and one too low.
TermSizes ==
    {[xmax |-> 78, ymax |-> 20], [xmax |-> 80, ymax |-> 25],
     [xmax |-> 250, ymax |-> 120], [xmax |-> 77, ymax |-> 25],
     [xmax |-> 80, ymax |-> 19]}

GoodSizes == {t \in TermSizes : t.xmax >= SCREEN_XMIN /\ t.ymax >= SCREEN_YMIN}

\* The characters typed: two of the whitelist and two outside it.
TypedChars == {"a", "/", "!", ","}

\* '%s/%s' % (pxname, svname) of the selected row
PastedNames == { <<"p", "/", "s">>, <<"p", "!", "/", "s">> }

\* The lengths of the line typed before the session starts.
EdStartLens == {0, 197, 199}

\* The ScreenCLI object after n characters were typed at the width xmax:
\* each putc moved the caret and, past ibmax, the viewport by one, which
\* leaves them where mvend puts them.
TypedCli(n, xmax) ==
    ScreenCLI_mvend([update_screenlines(NewScreenCLI, xmax)
                        EXCEPT !.ibuf = [i \in 1..n |-> "a"]], xmax)

NoEdOp == [name |-> "none", text |-> <<>>, raised |-> FALSE]

EdIdle ==
    /\ ed = NewScreenCLI
    /\ term = NewTerm(TRUE, 1)
    /\ tty = [xmax |-> 78, ymax |-> 20]
    /\ edOp = NoEdOp
    /\ edOps = 0

\* The ScreenCLI object after a line of n characters was typed and run with
\* ENTER at the width xmax.
RunCli(n, xmax) == ScreenCLI_execute(TypedCli(n, xmax), xmax, <<>>, TRUE).cli

\* Either the program right after Screen.setup, on a terminal of any size,
\* or a session in CLI mode with a line typed and, in the history, a line
\* quit that was typed before and left with KEY_UP, or a session in which
\* a long line was run and which shows the CLI or went back to a stat mode.
EdInit ==
    /\ \/ /\ ed = NewScreenCLI
          /\ \E dumb \in BOOLEAN, mid \in {1, 5} : term = NewTerm(dumb, mid)
          /\ tty \in TermSizes
       \/ \E n \in EdStartLens, t \in GoodSizes, dumb \in BOOLEAN :
             /\ tty = t
             /\ term = [xmax |-> getmaxyx(t).xmax, ymax |-> getmaxyx(t).ymax,
                        resized |-> FALSE, dumbtty |-> dumb, mid |-> 5]
             /\ ed = [TypedCli(n, getmaxyx(t).xmax)
                         EXCEPT !.ihist = << <<"q", "u", "i", "t">> >>]
       \/ \E t \in GoodSizes, dumb \in BOOLEAN, mid \in {1, 5} :
             /\ tty = t
             /\ term = [xmax |-> getmaxyx(t).xmax, ymax |-> getmaxyx(t).ymax,
                        resized |-> FALSE, dumbtty |-> dumb, mid |-> mid]
             /\ ed = RunCli(CLI_INPUT_LIMIT - 3, getmaxyx(t).xmax)
    /\ edOp = NoEdOp
    /\ edOps = 0

EdRunning == edOps < MaxEdOps /\ ~edOp.raised

\* The pass handles a key: the size did not change since the last resize.
EdKeyPass(mids) == EdRunning /\ ~resized(term, tty) /\ term.mid \in mids

EdDone(name, text, raised) ==
    /\ edOp' = [name |-> name, text |-> text, raised |-> raised]
    /\ edOps' = edOps + 1
    /\ UNCHANGED notEd

\* The terminal is resized: SIGWINCH where the handler is installed.
EdWinch ==
    /\ EdRunning
    /\ \E t \in TermSizes \ {tty} : tty' = t
    /\ term' = [term EXCEPT !.resized = IF term.dumbtty THEN @ ELSE TRUE]
    /\ UNCHANGED ed
    /\ EdDone("winch", <<>>, FALSE)

\* The top of a pass: if screen.resized: screen.resize()
EdResize ==
    /\ EdRunning
    /\ resized(term, tty)
    /\ \E r \in {resize(term, ed, tty)} :
          /\ term' = r.scr
          /\ ed' = r.cli
          /\ EdDone("resize", <<>>, r.raised)
    /\ UNCHANGED tty

\* ESC and a digit: switch_mode between a stat mode and the CLI
EdSwitch ==
    /\ EdKeyPass({1, 5})
    /\ term' = [term EXCEPT !.mid = IF @ = 5 THEN 1 ELSE 5]
    /\ UNCHANGED <<ed, tty>>
    /\ EdDone("switch", <<>>, FALSE)

\* A character key in CLI mode
EdPutc ==
    /\ EdKeyPass({5})
    /\ \E ch \in TypedChars :
          /\ ed' = putc(ed, ch, term.xmax)
          /\ EdDone("putc", <<ch>>, FALSE)
    /\ UNCHANGED <<term, tty>>

\* SPACE on a selected server row of a stat mode
EdPaste ==
    /\ EdKeyPass({1})
    /\ \E s \in PastedNames :
          \E r \in {puts(ed, s, term.xmax)} :
             /\ ed' = r.cli
             /\ term' = [term EXCEPT !.mid = IF r.ok THEN 5 ELSE @]
             /\ EdDone("puts", s, FALSE)
    /\ UNCHANGED tty

\* KEY_DC and KEY_BACKSPACE / DEL
EdDelc ==
    /\ EdKeyPass({5})
    /\ \E n \in {-1, 1} :
          /\ ed' = delc(ed, n, term.xmax)
          /\ EdDone(IF n < 0 THEN "delete left" ELSE "delete right", <<>>, FALSE)
    /\ UNCHANGED <<term, tty>>

\* KEY_LEFT, KEY_RIGHT, HOME and END
EdMove ==
    /\ EdKeyPass({5})
    /\ \E k \in {"left", "right", "home", "end"} :
          /\ ed' = CASE k = "left" -> ScreenCLI_mvc(ed, -1, term.xmax)
                     [] k = "right" -> ScreenCLI_mvc(ed, 1, term.xmax)
                     [] k = "home" -> ScreenCLI_mvhome(ed)
                     [] k = "end" -> ScreenCLI_mvend(ed, term.xmax)
          /\ EdDone(k, <<>>, FALSE)
    /\ UNCHANGED <<term, tty>>

\* KEY_UP and KEY_DOWN
EdHistory ==
    /\ EdKeyPass({5})
    /\ \E k \in {"prev", "next"} :
          /\ ed' = IF k = "prev" THEN prev(ed, term.xmax) ELSE next(ed, term.xmax)
          /\ EdDone(k, <<>>, FALSE)
    /\ UNCHANGED <<term, tty>>

\* ENTER
EdExecute ==
    /\ EdKeyPass({5})
    /\ \E lines \in CliReplies, ok \in BOOLEAN :
          \E r \in {ScreenCLI_execute(ed, term.xmax, lines, ok)} :
             /\ ed' = r.cli
             /\ EdDone("execute", <<>>, r.op = "raised")
    /\ UNCHANGED <<term, tty>>

\* A hotkey command on the selected row of a stat mode
EdHotkey ==
    /\ EdKeyPass({1})
    /\ \E lines \in CliReplies, ok \in BOOLEAN :
          \E r \in {ScreenCLI_execute_cmdline(ed, <<"x">>, term.xmax, lines, ok)} :
             /\ ed' = r.cli
             /\ EdDone("hotkey", <<>>, r.op = "raised")
    /\ UNCHANGED <<term, tty>>

\* KEY_PPAGE and KEY_NPAGE
EdScroll ==
    /\ EdKeyPass({5})
    /\ \E n \in {-1, 1} :
          /\ ed' = mvo(ed, n, term.ymax)
          /\ EdDone(IF n < 0 THEN "page up" ELSE "page down", <<>>, FALSE)
    /\ UNCHANGED <<term, tty>>

EdNext ==
    \/ EdWinch \/ EdResize \/ EdSwitch \/ EdPutc \/ EdPaste \/ EdDelc
    \/ EdMove \/ EdHistory \/ EdExecute \/ EdHotkey \/ EdScroll

(***************************************************************************)
(* __main__: the options, the try block with its handlers, the exit code   *)
(*                                                                         *)
(* mopts is what the option parser returned, mrun where the block stands:  *)
(* pc, active (Screen.active: setup has initialized the terminal), the     *)
(* exception that ended the try block and the statement it rose in, the    *)
(* exit code (-1 while running) and the number of restarts of mainloop.    *)
(* mainloop is taken by what it raises.                                    *)
(***************************************************************************)
\* The restarts of mainloop after a curses error that are followed.
MaxRestarts == 2

IsDigit(ch) == ch \in {"0", "1", "2", "3", "4", "5", "6", "7", "8", "9"}

RECURSIVE SkipDigits(_)
SkipDigits(s) == IF s # <<>> /\ IsDigit(Head(s)) THEN SkipDigits(Tail(s)) ELSE s

\* What -?\d+ leaves of s, or Nothing when it does not match at the start
Nothing == <<"no match">>
AfterInt(s) ==
    IF s = Nothing THEN Nothing
    ELSE LET body == IF s # <<>> /\ Head(s) = "-" THEN Tail(s) ELSE s
             rest == SkipDigits(body)
         IN  IF Len(rest) < Len(body) THEN rest ELSE Nothing

\* What \s+ leaves of s
AfterSpaces(s) ==
    IF s = Nothing THEN Nothing
    ELSE IF Len(LStrip(s)) < Len(s) THEN LStrip(s) ELSE Nothing

\* $ of a pattern: the end of the text, or its last newline
AtEnd(s) == s = <<>> \/ s = <<NL>>

\* HAPROXY_STAT_FILTER_RE.match(filter)
HAPROXY_STAT_FILTER_RE(f) ==
    AtEnd(AfterInt(AfterSpaces(AfterInt(AfterSpaces(AfterInt(f))))))

\* [a-zA-Z0-9_:\.\-]
ProxyNameChars == (CLI_INPUT_RE \ {"+", ";", " ", "/", "#", "%"})

RECURSIVE SkipNameChars(_)
SkipNameChars(s) ==
    IF s # <<>> /\ Head(s) \in ProxyNameChars THEN SkipNameChars(Tail(s)) ELSE s

\* HAPROXY_STAT_PROXY_FILTER_RE.match(filter)
HAPROXY_STAT_PROXY_FILTER_RE(f) ==
    /\ Len(SkipNameChars(f)) < Len(f)
    /\ AtEnd(SkipNameChars(f))

\* The texts given with -f and with -p.
StatFilterTexts ==
    { <<"1", " ", "-", "1", " ", "-", "1">>, <<"1", "0", " ", " ", "2", "\t", "3">>,
      <<"1", " ", "2">>, <<"x", " ", "1", " ", "1">>, <<"1", " ", "1", " ", "1", " ">> }
ProxyFilterTexts == { <<"w", "w", "w">>, <<"w", " ", "w">>, <<>> }

\* A list of n copies of one text
FilterList(n, text) == [i \in 1..n |-> text]

\* The option sets: values at and beside the limits.
OptIntervals == {0, 1, 30, 31}
OptModes == {0, 1, 5, 6}
OptStatFilters ==
    {FilterList(n, t) : n \in {0, 1, 50, 51}, t \in StatFilterTexts}
OptProxyFilters == {FilterList(n, t) : n \in {0, 1}, t \in ProxyFilterTexts}

\* The checks of the options, in their order: the exit code, or -1 when
\* the options pass.
CheckOptions(o) ==
    IF ~(1 <= o.interval /\ o.interval <= 30) THEN 1
    ELSE IF ~(1 <= o.mode /\ o.mode <= 5) THEN 1
    ELSE IF Len(o.stat_filter) + Len(o.proxy_filter) > 50 THEN 1
    ELSE IF o.ro /\ o.mode = 5 THEN 1
    ELSE IF o.socket = "none" THEN 0
    ELSE IF o.socket = "no access" THEN 2
    ELSE -1

\* set(stat_filter), set(proxy_filter): the texts of the list
FilterSet(given) == {given[i] : i \in 1..Len(given)}

\* The exit code the handlers of the try block give to an exception rose at
\* the statement `at`; one that no handler takes ends the interpreter with a
\* traceback and status 1.
MainExitCode(kind, at) ==
    IF kind \in {"StopIteration", "KeyboardInterrupt"} /\ at = "mainloop" THEN 0
    ELSE IF kind = "SystemExit" THEN 0
    ELSE IF kind \in {"ValueError", "RuntimeError", "SocketError"} THEN ExitCode(kind)
    ELSE 1

NewRun ==
    [pc |-> "options", active |-> FALSE, exc |-> NoException, exitcode |-> -1,
     restarts |-> 0, cause |-> "none"]

RunIdle ==
    /\ mopts = [interval |-> 3, mode |-> 1, ro |-> FALSE, socket |-> "none",
                stat_filter |-> <<>>, proxy_filter |-> <<>>]
    /\ mrun = [NewRun EXCEPT !.pc = "exited", !.exitcode = 0]

RunInit ==
    /\ mopts \in [interval : OptIntervals, mode : OptModes, ro : BOOLEAN,
                  socket : {"none", "no access", "ok"},
                  stat_filter : OptStatFilters, proxy_filter : OptProxyFilters]
    /\ mrun = NewRun

\* The exception kind leaves the try block; cause names the event.
RunRaise(kind, cause) ==
    mrun' = [mrun EXCEPT !.pc = "finally", !.exc = [kind |-> kind, at |-> mrun.pc],
                         !.cause = cause]

\* The checks of the options: sys.exit before the try block
RunOptions ==
    /\ mrun.pc = "options"
    /\ mrun' = IF CheckOptions(mopts) = -1
               THEN [mrun EXCEPT !.pc = "connect"]
               ELSE [mrun EXCEPT !.pc = "exited", !.exitcode = CheckOptions(mopts),
                                 !.cause = "options"]
    /\ UNCHANGED mopts
    /\ UNCHANGED notRun

\* socket.connect()
RunConnect ==
    /\ mrun.pc = "connect"
    /\ \/ mrun' = [mrun EXCEPT !.pc = "setup"]
       \/ \E cause \in {"connect failure", "end of stream", "timeout"} :
             RunRaise("SocketError", cause)
    /\ UNCHANGED mopts
    /\ UNCHANGED notRun

\* screen.setup(): curses_init may fail; active is set at its end.
RunSetup ==
    /\ mrun.pc = "setup"
    /\ \/ mrun' = [mrun EXCEPT !.pc = "register", !.active = TRUE]
       \/ RunRaise("CursesError", "curses error")
    /\ UNCHANGED mopts
    /\ UNCHANGED notRun

\* data.register_stat_filter(...); data.register_proxy_filter(...)
RunRegister ==
    /\ mrun.pc = "register"
    /\ IF \E f \in FilterSet(mopts.stat_filter) : ~HAPROXY_STAT_FILTER_RE(f)
       THEN RunRaise("ValueError", "stat filter syntax")
       ELSE IF \E f \in FilterSet(mopts.proxy_filter) : ~HAPROXY_STAT_PROXY_FILTER_RE(f)
       THEN RunRaise("ValueError", "proxy filter syntax")
       ELSE \/ mrun' = [mrun EXCEPT !.pc = "mainloop"]
            \/ \E cause \in {"end of stream", "timeout"} :
                  RunRaise("SocketError", cause)
            \/ RunRaise("RuntimeError", "garbage field")
            \/ /\ mopts.proxy_filter # <<>>
               /\ RunRaise("RuntimeError", "proxy not found")
    /\ UNCHANGED mopts
    /\ UNCHANGED notRun

\* What ends mainloop, by cause.
MainloopEnds ==
    { <<"StopIteration", "quit key">>, <<"KeyboardInterrupt", "ctrl-c">>,
      <<"RuntimeError", "garbage field">>, <<"RuntimeError", "missing info key">>,
      <<"RuntimeError", "stale filter">>, <<"RuntimeError", "screen too small">>,
      <<"SocketError", "end of stream">>, <<"SocketError", "timeout">>,
      <<"IndexError", "cursor past the last line">> }

\* mainloop(screen, opts.interval) raises, a curses error apart
RunMainloop ==
    /\ mrun.pc = "mainloop"
    /\ \E e \in MainloopEnds :
          /\ e[2] = "stale filter" => mopts.stat_filter # <<>> \/ mopts.proxy_filter # <<>>
          /\ RunRaise(e[1], e[2])
    /\ UNCHANGED mopts
    /\ UNCHANGED notRun

\* except CursesError: screen.reset(); log(...); time.sleep(1);
\* screen.recover(), and the while loop calls mainloop again
RunCursesError ==
    /\ mrun.pc = "mainloop"
    /\ mrun.restarts < MaxRestarts
    /\ mrun' = [mrun EXCEPT !.restarts = @ + 1, !.cause = "curses error"]
    /\ UNCHANGED mopts
    /\ UNCHANGED notRun

\* SIGTERM (the handler calls sys.exit(0)) and SIGINT (KeyboardInterrupt)
\* while the try block runs
RunSignal ==
    /\ mrun.pc \in {"connect", "setup", "register", "mainloop"}
    /\ \/ RunRaise("SystemExit", "SIGTERM")
       \/ RunRaise("KeyboardInterrupt", "SIGINT")
    /\ UNCHANGED mopts
    /\ UNCHANGED notRun

\* The handler of the exception, finally: screen.reset(); socket.close(),
\* and the exit
RunFinally ==
    /\ mrun.pc = "finally"
    /\ mrun' = [mrun EXCEPT !.pc = "exited",
                            !.exitcode = MainExitCode(mrun.exc.kind, mrun.exc.at)]
    /\ UNCHANGED mopts
    /\ UNCHANGED notRun

RunNext ==
    \/ RunOptions \/ RunConnect \/ RunSetup \/ RunRegister \/ RunMainloop
    \/ RunCursesError \/ RunSignal \/ RunFinally

(***************************************************************************)
(* ScreenMode.sync: the widths of the columns                              *)
(*                                                                         *)
(* colw[m][i] is the width of column i of mode m, shown the Screen object  *)
(* as far as sync reads it.  Screen.resize syncs the mode shown,           *)
(* Screen.switch_mode the mode it switches to.                             *)
(***************************************************************************)
\* The resizes and mode switches that are followed.
MaxSyncs == 2

Col(minwidth, maxwidth) == [minwidth |-> minwidth, maxwidth |-> maxwidth]

\* SCREEN_MODES[m].columns: minwidth and maxwidth of each column
SCREEN_MODES ==
    [m \in 0..5 |->
       CASE m = 0 -> <<Col(SCREEN_XMIN, 0)>>
         [] m = 1 -> <<Col(10, 50), Col(4, 6), Col(6, 10), Col(7, 20), Col(3, 0),
                       Col(3, 0), Col(5, 0), Col(5, 0), Col(6, 0), Col(6, 0),
                       Col(6, 0), Col(6, 0)>>
         [] m = 2 -> <<Col(10, 50), Col(4, 6), Col(6, 10), Col(8, 0), Col(6, 0),
                       Col(6, 0), Col(6, 0), Col(12, 0), Col(12, 0)>>
         [] m = 3 -> <<Col(10, 50), Col(4, 6), Col(6, 10), Col(5, 0), Col(5, 0),
                       Col(7, 0), Col(5, 0), Col(5, 0), Col(5, 0), Col(5, 0),
                       Col(5, 0), Col(5, 0)>>
         [] m = 4 -> <<Col(10, 50), Col(4, 6), Col(6, 10), Col(7, 20), Col(3, 0),
                       Col(3, 0), Col(3, 0), Col(5, 0), Col(5, 0), Col(5, 0),
                       Col(5, 0), Col(5, 0), Col(5, 0)>>
         [] m = 5 -> <<Col(SCREEN_XMIN, 0)>>]

\* get_width(width, xmax, ncols, idx), idx counted from 0
get_width(width, xmax, ncols, idx) ==
    IF xmax > SCREEN_XMIN
    THEN LET xdiff == xmax - SCREEN_XMIN
         IN  IF xdiff <= ncols
             THEN IF idx < xdiff THEN width + 1 ELSE width
             ELSE (IF idx < xdiff - (xdiff \div ncols) * ncols
                   THEN width + 1 ELSE width) + xdiff \div ncols
    ELSE width

\* ScreenColumn.set_width(n): the assignment of min(maxwidth, n) is
\* followed by that of max(minwidth, n), which is the value that stays.
set_width(column, n) == Max(column.minwidth, n)

\* ScreenMode.sync(screen): the widths of the columns of mode m
sync(m, xmax) ==
    [i \in 1..Len(SCREEN_MODES[m]) |->
        set_width(SCREEN_MODES[m][i],
                  get_width(SCREEN_MODES[m][i].minwidth, xmax,
                            Len(SCREEN_MODES[m]), i - 1))]

\* ScreenColumn.__init__: width = minwidth
NewWidths ==
    [m \in 0..5 |-> [i \in 1..Len(SCREEN_MODES[m]) |-> SCREEN_MODES[m][i].minwidth]]

SyncIdle ==
    /\ colw = NewWidths
    /\ shown = [xmax |-> SCREEN_XMIN, mid |-> 1]
    /\ synced = -1
    /\ syncs = 0

\* Screen.__init__ with the mode of the command line
SyncInit ==
    /\ colw = NewWidths
    /\ \E mid \in 1..5 : shown = [xmax |-> SCREEN_XMIN, mid |-> mid]
    /\ synced = -1
    /\ syncs = 0

\* Screen.resize to a new accepted width: self.mode.sync(self)
SyncResize ==
    /\ syncs < MaxSyncs
    /\ \E xmax \in (SCREEN_XMIN..SCREEN_XMAX) \ {shown.xmax} :
          /\ shown' = [shown EXCEPT !.xmax = xmax]
          /\ colw' = [colw EXCEPT ![shown.mid] = sync(shown.mid, xmax)]
    /\ synced' = shown.mid
    /\ syncs' = syncs + 1
    /\ UNCHANGED notSync

\* Screen.switch_mode(mid): mode.sync(self) on the mode switched to
SyncSwitch ==
    /\ syncs < MaxSyncs
    /\ \E mid \in 0..5 :
          /\ shown' = [shown EXCEPT !.mid = mid]
          /\ colw' = [colw EXCEPT ![mid] = sync(mid, shown.xmax)]
          /\ synced' = mid
    /\ syncs' = syncs + 1
    /\ UNCHANGED notSync

SyncNext == SyncResize \/ SyncSwitch

(***************************************************************************)
(* SocketData.update_stat with registered filters                          *)
(*                                                                         *)
(* fdata is the SocketData object with its set _filters of (iid, type,     *)
(* sid).  The server answers 'show stat iid type sid' with the rows of its *)
(* configuration fconf that the filter selects: iid and sid select one     *)
(* proxy and one service or, as -1, all of them; type is a mask of         *)
(* 1 (frontend), 2 (backend) and 4 (server), -1 for all.                   *)
(***************************************************************************)
\* The calls of update_stat that are followed.
MaxStatCalls == 2

\* The bit of the mask for a row of the csv type 0, 1, 2 (3: none)
TypeBit(type) == CASE type = 0 -> 1 [] type = 1 -> 2 [] type = 2 -> 4 [] OTHER -> 0

\* The row is one the server sends for the filter.
Selects(filter, row) ==
    /\ filter[1] = -1 \/ IntOf(row.iid) = filter[1]
    /\ filter[2] = -1 \/ (filter[2] \div Max(1, TypeBit(IntOf(row.type)))) % 2 = 1
    /\ TypeBit(IntOf(row.type)) # 0 \/ filter[2] = -1
    /\ filter[3] = -1 \/ IntOf(row.sid) = filter[3]

RECURSIVE SelectRows(_, _)
SelectRows(filter, rows) ==
    IF rows = <<>> THEN <<>>
    ELSE (IF Selects(filter, Head(rows)) THEN <<Head(rows)>> ELSE <<>>)
         \o SelectRows(filter, Tail(rows))

\* The configurations of the server: two proxies, the first with two
\* servers; the same without the second server; the first proxy alone.
StatConfigs ==
    { << Frontend("px1", 1), Server("px1", "srv", 1, 1), Server("px1", "srv", 1, 2),
         Backend("px1", 1), Frontend("px2", 2), Server("px2", "srv", 2, 1) >>,
      << Frontend("px1", 1), Server("px1", "srv", 1, 1), Backend("px1", 1),
         Frontend("px2", 2), Server("px2", "srv", 2, 1) >>,
      << Frontend("px1", 1), Server("px1", "srv", 1, 1), Server("px1", "srv", 1, 2),
         Backend("px1", 1) >> }

\* The filters registered with -f and -p.
StatFilters ==
    { <<1, -1, -1>>, <<2, -1, -1>>, <<1, 4, 1>>, <<1, 4, 2>>, <<1, 1, -1>>,
      <<2, 4, 1>> }
FilterSets == {S \in SUBSET StatFilters : Cardinality(S) \in {1, 2}}

\* The orders in which "for filter in self._filters" may visit a set
Orders(S) ==
    {o \in [1..Cardinality(S) -> S] : \A i, j \in 1..Cardinality(S) : o[i] = o[j] => i = j}

\* dict.update: the entries of the argument replace those of equal key
DictUpdate(d, other) == other @@ d

\* The loop of update_stat over the filters from the k-th of order on; acc
\* is self.pxcount, self.svcount, self.stat and what was raised.
RECURSIVE FilterLoop(_, _, _, _)
FilterLoop(acc, order, rows, k) ==
    IF k > Len(order) \/ acc.raised # "none" THEN acc
    ELSE LET p == parse_stat(SelectRows(order[k], rows))
         IN  IF p.err # "" \/ p.pxcount = 0
             THEN [acc EXCEPT !.raised = "RuntimeError"]
             ELSE FilterLoop([acc EXCEPT !.pxcount = @ + p.pxcount,
                                         !.svcount = @ + p.svcount,
                                         !.stat = DictUpdate(@, p.pxstat)],
                             order, rows, k + 1)

\* SocketData.update_stat with filters: the data it leaves and what it
\* raised; the RuntimeWarning comes after the data was stored.
SocketData_update_stat_filtered(d, order, rows) ==
    LET r == FilterLoop([pxcount |-> 0, svcount |-> 0, stat |-> EmptyMap,
                         raised |-> "none"], order, rows, 1)
    IN  [data |-> [d EXCEPT !.pxcount = r.pxcount, !.svcount = r.svcount,
                            !.stat = r.stat],
         raised |-> IF r.raised # "none" THEN r.raised
                    ELSE IF r.pxcount = 0
                           \/ CountDiff(d.pxcount, r.pxcount) # 0
                           \/ CountDiff(d.svcount, r.svcount) # 0
                    THEN "RuntimeWarning"
                    ELSE "none"]

NewFilterData(S) ==
    [pxcount |-> 0, svcount |-> 0, stat |-> EmptyMap, filters |-> S]

FiltIdle ==
    /\ fdata = NewFilterData({})
    /\ fconf = <<>>
    /\ fraised = "none"
    /\ fcalls = 0

\* SocketData after register_stat_filter and register_proxy_filter
FiltInit ==
    /\ fdata \in {NewFilterData(S) : S \in FilterSets}
    /\ fconf = <<>>
    /\ fraised = "none"
    /\ fcalls = 0

\* screen.update_data(): self.data.update_stat(), the server holding rows
FilteredUpdate ==
    /\ fcalls < MaxStatCalls
    /\ fraised # "RuntimeError"
    /\ \E rows \in StatConfigs, order \in Orders(fdata.filters) :
          \E r \in {SocketData_update_stat_filtered(fdata, order, rows)} :
             /\ fdata' = r.data
             /\ fraised' = r.raised
             /\ fconf' = rows
    /\ fcalls' = fcalls + 1
    /\ UNCHANGED notFilt

FiltNext == FilteredUpdate

(***************************************************************************)
(* SocketData.register_proxy_filter                                        *)
(*                                                                         *)
(* preq is the set of names given with -p, all of them well-formed; preply *)
(* the rows the server sends for the one 'show stat'.  preg holds the      *)
(* filters of the SocketData object afterwards and the error raised.       *)
(***************************************************************************)
\* The names given with -p.
ProxyNames == {"px1", "px2", "px9"}

\* The rows that follow the servers of proxy 1 in a reply.
ProxyTailLines ==
    {Frontend("px2", 2), Server("px2", "srv", 2, 1), Backend("px3", 3),
     [Server("px1", "srv", 1, 1) EXCEPT !.seps = HAPROXY_STAT_NUMFIELDS - 1]}

ProxyReplies ==
    {ServerRun(n) \o t :
        n \in {0, HAPROXY_STAT_MAX_SERVICES, HAPROXY_STAT_MAX_SERVICES + 1},
        t \in SeqsUpTo(ProxyTailLines, MaxStatTail)}

NotRegistered == [filters |-> {}, raised |-> ""]

\* The loops that fill proxy_iid_map: of every proxy of pxstat the service
\* that comes first in its table is looked at, firstOf[iid]; a name is
\* mapped to an iid whose first service carries it.
ProxyCandidates(pxstat, firstOf, pxname) ==
    {iid \in DOMAIN pxstat : pxstat[iid][firstOf[iid]].pxname = pxname}

\* The tables proxy_iid_map may hold after the loops.
ProxyIidMaps(pxstat, names) ==
    UNION {
        {m \in [{n \in names : ProxyCandidates(pxstat, firstOf, n) # {}}
                    -> DOMAIN pxstat] :
            \A n \in DOMAIN m : m[n] \in ProxyCandidates(pxstat, firstOf, n)}
        : firstOf \in {f \in [DOMAIN pxstat -> UNION {DOMAIN pxstat[i] : i \in DOMAIN pxstat}] :
                          \A i \in DOMAIN pxstat : f[i] \in DOMAIN pxstat[i]} }

\* register_proxy_filter(proxy_filter) once proxy_iid_map is m
register_proxy_filter(reg, names, m) ==
    IF \E n \in names : n \notin DOMAIN m
    THEN [reg EXCEPT !.raised = "proxy not found"]
    ELSE [reg EXCEPT !.filters = @ \cup {<<m[n], -1, -1>> : n \in DOMAIN m}]

ProxIdle ==
    /\ preq = {}
    /\ preply = <<>>
    /\ preg = NotRegistered
    /\ pdone = FALSE

ProxInit ==
    /\ preq \in (SUBSET ProxyNames) \ {{}}
    /\ preply \in ProxyReplies
    /\ preg = NotRegistered
    /\ pdone = FALSE

\* screen.data.register_proxy_filter(opts.proxy_filter)
RegisterProxyFilter ==
    /\ ~pdone
    /\ pdone' = TRUE
    /\ \E p \in {parse_stat(preply)} :
          IF p.err # ""
          THEN preg' = [preg EXCEPT !.raised = p.err]
          ELSE \E m \in ProxyIidMaps(p.pxstat, preq) :
                  preg' = register_proxy_filter(preg, preq, m)
    /\ UNCHANGED <<preq, preply>>
    /\ UNCHANGED notProx

ProxNext == RegisterProxyFilter

(***************************************************************************)
(* Screen: the cursor of the stat view                                     *)
(*                                                                         *)
(* cur is the Screen object as far as the cursor reads and writes it: cpos *)
(* the cursor line within the viewport, vmin the first line shown, nlines  *)
(* len(self.lines), ymax the stored height, mid the mode, queued           *)
(* len(self.exceptions), pxcount and svcount those of self.data.  The      *)
(* server holds one proxy, so that a view of the stats has one header line *)
(* and one line for each service.                                          *)
(***************************************************************************)
\* The operations on the cursor that are followed.
MaxCurOps == 7
\* The warnings that may wait in self.exceptions.
MaxQueued == 4

\* Screen.span: smax - smin
Screen_span(s) == (s.ymax - 3) - (SCREEN_HPOS + 2)

\* Screen.cmax
Screen_cmax(s) == Min(Screen_span(s), s.nlines - 1)

\* Screen.vpos
Screen_vpos(s) == s.vmin + s.cpos

\* maxvmin of mvc and mvend
MaxVmin(s) == Max(0, s.nlines - Screen_span(s) - 1)

\* Screen.mvc with the viewport
Screen_mvc(s, n) ==
    IF n > 0
    THEN IF s.cpos < Screen_cmax(s)
         THEN [s EXCEPT !.cpos = Min(Screen_cmax(s), s.cpos + n)]
         ELSE IF s.cpos = Screen_cmax(s) /\ s.vmin < MaxVmin(s)
         THEN [s EXCEPT !.vmin = Min(MaxVmin(s), s.vmin + n)]
         ELSE s
    ELSE IF n < 0
    THEN IF s.cpos > 0
         THEN [s EXCEPT !.cpos = Max(0, s.cpos + n)]
         ELSE IF s.cpos = 0 /\ s.vmin > 0
         THEN [s EXCEPT !.vmin = Max(0, s.vmin + n)]
         ELSE s
    ELSE s

\* Screen.mvhome with the viewport
Screen_mvhome(s) == [s EXCEPT !.cpos = 0, !.vmin = 0]

\* Screen.mvend
Screen_mvend(s) == [s EXCEPT !.cpos = Screen_cmax(s), !.vmin = MaxVmin(s)]

\* len(get_screenlines(stat)): a header and a blank line for every proxy
\* but the last, which has no blank line, and a line for every service
StatViewLen(pxcount, svcount) ==
    IF pxcount = 0 THEN 0 ELSE 2 * pxcount + svcount - 1

\* Screen.update_data when the server holds n services: the warning of
\* update_stat is appended to self.exceptions
Cursor_update_data(s, n) ==
    LET px == IF n = 0 THEN 0 ELSE 1
        warn == \/ px = 0
                \/ CountDiff(s.pxcount, px) # 0
                \/ CountDiff(s.svcount, n) # 0
    IN  [s EXCEPT !.pxcount = px, !.svcount = n,
                  !.queued = IF warn THEN @ + 1 ELSE @]

\* Screen.update_lines, below the service cap
Cursor_update_lines(s) ==
    IF s.queued > 0
    THEN [Screen_mvhome(s) EXCEPT !.nlines = s.queued, !.queued = 0]
    ELSE [s EXCEPT !.nlines = StatViewLen(s.pxcount, s.svcount)]

\* Screen.resize to a terminal of the height ymax
Cursor_resize(s, ymax) == [s EXCEPT !.ymax = ymax]

\* The services of the proxy and the heights of the terminal.
ServiceCounts == {0, 1, 8, 30}
Heights == {SCREEN_YMIN, 25, 40}

NoCurOp == "none"

CurIdle ==
    /\ cur = [cpos |-> 0, vmin |-> 0, nlines |-> 0, ymax |-> SCREEN_YMIN,
              mid |-> 1, queued |-> 0, pxcount |-> 0, svcount |-> 0]
    /\ curOp = NoCurOp
    /\ curOps = 0

\* The screen after the first pass of mainloop, which resizes to the
\* terminal and calls update_data and update_lines in whatever mode.
CurInit ==
    /\ \E ymax \in Heights, n \in ServiceCounts, mid \in {1, 5} :
          cur = Cursor_update_lines(Cursor_update_data(
                   [cpos |-> 0, vmin |-> 0, nlines |-> 0, ymax |-> ymax,
                    mid |-> mid, queued |-> 0, pxcount |-> 0, svcount |-> 0], n))
    /\ curOp = NoCurOp
    /\ curOps = 0

CurDone(name) ==
    /\ curOps < MaxCurOps
    /\ curOp' = name
    /\ curOps' = curOps + 1
    /\ UNCHANGED notCur

\* KEY_UP, KEY_DOWN, KEY_PPAGE, KEY_NPAGE, HOME and END in a stat mode
CurMove ==
    /\ cur.mid \in 1..4
    /\ \E k \in {"up", "down", "pgup", "pgdn", "home", "end"} :
          /\ cur' = CASE k = "up" -> Screen_mvc(cur, -1)
                      [] k = "down" -> Screen_mvc(cur, 1)
                      [] k = "pgup" -> Screen_mvc(cur, -10)
                      [] k = "pgdn" -> Screen_mvc(cur, 10)
                      [] k = "home" -> Screen_mvhome(cur)
                      [] k = "end" -> Screen_mvend(cur)
          /\ CurDone(k)

\* The pass in which the interval has elapsed: update_data, and
\* update_lines in a stat mode
CurRefresh ==
    /\ \E n \in ServiceCounts :
          \E d \in {Cursor_update_data(cur, n)} :
             /\ d.queued <= MaxQueued
             /\ cur' = IF cur.mid \in 1..4 THEN Cursor_update_lines(d) ELSE d
    /\ CurDone("refresh")

\* SIGWINCH and the resize at the top of the next pass
CurResize ==
    /\ \E ymax \in Heights \ {cur.ymax} : cur' = Cursor_resize(cur, ymax)
    /\ CurDone("resize")

\* ESC and a digit: switch_mode between a stat mode and the CLI
CurSwitch ==
    /\ cur' = [cur EXCEPT !.mid = IF @ = 5 THEN 1 ELSE 5]
    /\ CurDone("switch")

CurNext == CurMove \/ CurRefresh \/ CurResize \/ CurSwitch

(***************************************************************************)
(* SIGWINCH and Screen.resize                                              *)
(*                                                                         *)
(* The terminal is a smart one: setup installed _sigwinchhandler, and      *)
(* Screen.resized returns the flag _resized.  The handler runs between any *)
(* two statements of the main thread, so Screen.resize is taken in steps:  *)
(* it reads the size of the terminal, stores it, and clears the flag.      *)
(* win.pc is the place of the main thread, win.size the size resize holds  *)
(* in ymax, xmax, win.stored the size in self.ymax, self.xmax.             *)
(***************************************************************************)
\* The signals that are followed.
MaxSigs == 3

\* The sizes the operator gives the terminal.
WinSizes ==
    {[xmax |-> 78, ymax |-> 20], [xmax |-> 80, ymax |-> 25],
     [xmax |-> 120, ymax |-> 40], [xmax |-> 250, ymax |-> 120]}

\* Screen.__init__: _resized = True forces the first size sync.
NewWin ==
    [pc |-> "loop", resized |-> TRUE,
     stored |-> [ymax |-> SCREEN_YMIN, xmax |-> SCREEN_XMIN],
     size |-> [ymax |-> SCREEN_YMIN, xmax |-> SCREEN_XMIN]]

WinIdle ==
    /\ win = NewWin
    /\ winTty = [xmax |-> 78, ymax |-> 20]
    /\ winSigs = 0

WinInit ==
    /\ win = NewWin
    /\ winTty \in WinSizes
    /\ winSigs = 0

\* The operator resizes the terminal: _sigwinchhandler sets the flag,
\* wherever the main thread stands.
Sigwinch ==
    /\ winSigs < MaxSigs
    /\ \E t \in WinSizes \ {winTty} : winTty' = t
    /\ win' = [win EXCEPT !.resized = TRUE]
    /\ winSigs' = winSigs + 1
    /\ UNCHANGED notWin

\* mainloop: "if screen.resized: screen.resize()" up to
\* "ymax, xmax = self.getmaxyx()"
ResizeRead ==
    /\ win.pc = "loop"
    /\ win.resized
    /\ win' = [win EXCEPT !.pc = "read", !.size = getmaxyx(winTty)]
    /\ UNCHANGED <<winTty, winSigs>>
    /\ UNCHANGED notWin

\* Screen.resize: the comparison with the stored size and the assignments
\* to self.xmax and self.ymax
ResizeStore ==
    /\ win.pc = "read"
    /\ win' = [win EXCEPT !.pc = "clear", !.stored = win.size]
    /\ UNCHANGED <<winTty, winSigs>>
    /\ UNCHANGED notWin

\* Screen.resize: self._resized = False, on either way out
ResizeClear ==
    /\ win.pc = "clear"
    /\ win' = [win EXCEPT !.pc = "loop", !.resized = FALSE]
    /\ UNCHANGED <<winTty, winSigs>>
    /\ UNCHANGED notWin

WinSteps == ResizeRead \/ ResizeStore \/ ResizeClear

WinNext == Sigwinch \/ ResizeRead \/ ResizeStore \/ ResizeClear

\* The parts added after the first six, idle.
OthersIdle == EdIdle /\ RunIdle /\ SyncIdle /\ FiltIdle /\ ProxIdle /\ CurIdle /\ WinIdle

(***************************************************************************)
(* Specifications                                                          *)
(***************************************************************************)
Init == MainInit /\ RecvIdle /\ ParseIdle /\ CliIdle /\ KeysIdle /\ ViewIdle /\ OthersIdle

Spec == Init /\ [][Next]_vars

\* The program keeps running: no step of its own is put off for ever.
SpecLive == Init /\ [][Next]_vars /\ WF_vars(Steps)

InitRecv == RecvInit /\ ParseIdle /\ CliIdle /\ MainIdle /\ KeysIdle /\ ViewIdle /\ OthersIdle

SpecRecv == InitRecv /\ [][RecvNext]_vars

InitParse == ParseInit /\ RecvIdle /\ CliIdle /\ MainIdle /\ KeysIdle /\ ViewIdle /\ OthersIdle

SpecParse == InitParse /\ [][ParseNext]_vars

InitCLI == CliInit /\ RecvIdle /\ ParseIdle /\ MainIdle /\ KeysIdle /\ ViewIdle /\ OthersIdle

SpecCLI == InitCLI /\ [][CliNext]_vars

InitKeys == KeysInit /\ RecvIdle /\ ParseIdle /\ CliIdle /\ MainIdle /\ ViewIdle /\ OthersIdle

SpecKeys == InitKeys /\ [][KeysNext]_vars

InitView == ViewInit /\ RecvIdle /\ ParseIdle /\ CliIdle /\ MainIdle /\ KeysIdle /\ OthersIdle

FirstIdle ==
    RecvIdle /\ ParseIdle /\ CliIdle /\ MainIdle /\ KeysIdle /\ ViewIdle

InitEdit == EdInit /\ FirstIdle /\ RunIdle /\ SyncIdle /\ FiltIdle /\ ProxIdle /\ CurIdle /\ WinIdle

SpecEdit == InitEdit /\ [][EdNext]_vars

InitMain == RunInit /\ FirstIdle /\ EdIdle /\ SyncIdle /\ FiltIdle /\ ProxIdle /\ CurIdle /\ WinIdle

SpecMain == InitMain /\ [][RunNext]_vars

InitSync == SyncInit /\ FirstIdle /\ EdIdle /\ RunIdle /\ FiltIdle /\ ProxIdle /\ CurIdle /\ WinIdle

SpecSync == InitSync /\ [][SyncNext]_vars

InitFilter == FiltInit /\ FirstIdle /\ EdIdle /\ RunIdle /\ SyncIdle /\ ProxIdle /\ CurIdle /\ WinIdle

SpecFilter == InitFilter /\ [][FiltNext]_vars

InitProxy == ProxInit /\ FirstIdle /\ EdIdle /\ RunIdle /\ SyncIdle /\ FiltIdle /\ CurIdle /\ WinIdle

SpecProxy == InitProxy /\ [][ProxNext]_vars

InitCursor == CurInit /\ FirstIdle /\ EdIdle /\ RunIdle /\ SyncIdle /\ FiltIdle /\ ProxIdle /\ WinIdle

SpecCursor == InitCursor /\ [][CurNext]_vars

InitWinch ==
    WinInit /\ FirstIdle /\ EdIdle /\ RunIdle /\ SyncIdle /\ FiltIdle /\ ProxIdle /\ CurIdle

\* The main thread keeps running.
SpecWinch == InitWinch /\ [][WinNext]_vars /\ WF_vars(WinSteps)

SpecView == InitView /\ [][ViewNext]_vars

SpecLimit == InitView /\ [][LimitNext]_vars

(***************************************************************************)
(* Claims about Socket.recv and Socket.wait (SpecRecv)                     *)
(***************************************************************************)

\* The peer ended the reply with the prompt.
PromptSent == EndsWith(reply, HAPROXY_CLI_PROMPT)

\* s is a prefix of t
IsPrefix(s, t) == Len(s) <= Len(t) /\ SubSeq(t, 1, Len(s)) = s

\* C2, as stated: for any reply of at most 1,000 newline-terminated lines
\* followed by the prompt, and any division of its bytes into reads, recv
\* ends having yielded exactly the reply's lines, and recv and wait end
\* exactly when the final prompt has been consumed.
C2_AnyReplyFramed ==
    (PromptSent /\ Len(replyLines) <= HAPROXY_CLI_MAXLINES /\ rstate # "running")
        => /\ rstate = "done"
           /\ pos = Len(reply)
           /\ routine = "recv" => yielded = replyLines

\* C2, amended: the same, for every division into reads in which no read but
\* the last ends with the prompt text "> ": recv yields the reply's lines in
\* order, recv and wait stop exactly when the final prompt has been consumed
\* (never before, never reading past it), and wait keeps only the last
\* len(prompt) - 1 characters in front of the data of a read.
C2_FramedUnlessFalsePrompt ==
    (PromptSent /\ Len(replyLines) <= HAPROXY_CLI_MAXLINES /\ ~falsePrompt)
        => /\ rstate # "error"
           /\ rstate = "done" <=> pos = Len(reply)
           /\ routine = "recv" =>
                 /\ IsPrefix(yielded, replyLines)
                 /\ rstate = "done" => yielded = replyLines
           /\ routine = "wait" =>
                 Len(rbuf) <= Len(HAPROXY_CLI_PROMPT) - 1 + Len(data)

\* C2 witness: recv has finished a reply of two lines whose final prompt was
\* cut in two by a read boundary, and has yielded both lines.
C2_Witness ==
    /\ routine = "recv" /\ rstate = "done" /\ PromptSent /\ ~falsePrompt
    /\ data = <<" ">>
    /\ Len(replyLines) = 2 /\ replyLines[1] # <<>>
    /\ yielded = replyLines

C9_AtMost100Materialized ==
    (parsed.called /\ parsed.err = "")
        => Materialized(parsed.pxstat) <= HAPROXY_STAT_MAX_SERVICES

\* C10, as stated: the svcount parse_stat returns is the number of accepted
\* rows of the reply, whether or not the cap was exceeded.
C10_SvcountIsAcceptedRows ==
    (parsed.called /\ parsed.err = "")
        => parsed.svcount = Cardinality(Accepted(statReply))


\* The iid of the accepted rows of a reply.
AcceptedProxies(lines) == {IntOf(lines[i].iid) : i \in Accepted(lines)}

\* C29: the pxcount parse_stat returns is the number of distinct proxy
\* identifiers (iid) among the accepted rows, each proxy counted once, also
\* for the rows parsed after the service cap was exceeded.
C29_PxcountIsDistinctProxies ==
    (parsed.called /\ parsed.err = "")
        => parsed.pxcount = Cardinality(AcceptedProxies(statReply))

\* A row with fewer separators than the schema has fields.
SchemaUnderflow(line) ==
    ~line.empty /\ ~line.comment /\ line.seps < HAPROXY_STAT_NUMFIELDS

\* C32: a show stat row that is neither blank nor a comment and has fewer
\* separators than the schema has fields is a fatal parse error: parse_stat
\* raises on a reply in which it reads such a row.
C32_SchemaUnderflowIsFatal ==
    (parsed.called /\ \E i \in 1..parsed.nread : SchemaUnderflow(statReply[i]))
        => parsed.err # ""

(***************************************************************************)
(* Claims about ScreenCLI.execute (SpecCLI)                                *)
(***************************************************************************)
\* Some statement of the typed line matches a denied command.
AnyStatementDenied(line) ==
    \E i \in 1..Len(Statements(line)), p \in 1..Len(CLI_INPUT_DENY_CMD) :
        DenyMatch(CLI_INPUT_DENY_CMD[p], Statements(line)[i])

\* The first statement of the typed line matches a denied command.
FirstStatementDenied(line) ==
    \E p \in 1..Len(CLI_INPUT_DENY_CMD) :
        DenyMatch(CLI_INPUT_DENY_CMD[p], Statements(line)[1])

\* C6: when any ';'-separated statement of the typed line matches a denied
\* command, execute sends nothing, appends the diagnostic (and a blank line)
\* to obuf and leaves the input buffer, the caret and the history as they
\* were.
C6_DeniedNeverSent ==
    [][(cliOps' = cliOps + 1 /\ AnyStatementDenied(cli.ibuf)) =>
        /\ cliSent' = cliSent
        /\ cliOp' = "rejected"
        /\ \E i \in 1..Len(Statements(cli.ibuf)) :
              cli'.obuf = cli.obuf \o
                  <<NotAllowedLine(Statements(cli.ibuf)[i]), <<>> >>
        /\ cli'.ibuf = cli.ibuf
        /\ cli'.ibpos = cli.ibpos
        /\ cli'.ibmin = cli.ibmin
        /\ cli'.ihist = cli.ihist]_vars

\* A line whose second statement is denied has been rejected.
C6_Witness ==
    /\ cliOp = "rejected"
    /\ cliSent = <<>>
    /\ Len(cli.obuf) = 2
    /\ ~FirstStatementDenied(cli.ibuf)
    /\ AnyStatementDenied(cli.ibuf)

\* C7, as stated: a typed line is rejected if and only if its first
\* ';'-separated statement matches prompt, set timeout cli or quit.
C7_RejectedIffFirstDenied ==
    [][(cliOps' = cliOps + 1 /\ cli.ibuf # <<>>) =>
        ((cliOp' = "rejected") <=> FirstStatementDenied(cli.ibuf))]_vars

\* C7: a typed, non-empty line is rejected if and only if one of its
\* ';'-separated statements matches prompt, set timeout cli or quit
\* (case-sensitive, followed by whitespace or the end of the statement).
C7_RejectedIffAnyDenied ==
    [][(cliOps' = cliOps + 1 /\ cli.ibuf # <<>>) =>
        ((cliOp' = "rejected") <=> AnyStatementDenied(cli.ibuf))]_vars

\* A line whose first statement is harmless and whose second is quit was
\* rejected.
C7_Witness ==
    /\ cliOp = "rejected"
    /\ cli.ibuf = <<"x", ";", "q", "u", "i", "t">>
    /\ cliSent = <<>>

\* The line the typed characters make is neither empty nor denied.
Executable(line) == line # <<>> /\ ~AnyStatementDenied(line)

\* C19, as stated: executing a non-empty, non-denied input line sends that
\* exact line once, appends '* <time>', '> <line>' and the reply lines in
\* order to obuf, pushes the line as the newest history entry and resets the
\* input; executing an empty input sends nothing and appends only the marker
\* line and a blank line.
C19_ExecuteSendsLogsAndResets ==
    [][(cliOps' = cliOps + 1) =>
        /\ Executable(cli.ibuf) =>
              /\ cliSent' = Append(cliSent, cli.ibuf)
              /\ \E lines \in CliReplies :
                    cli'.obuf = RingExtend(cli.obuf,
                                    << <<"*", " ">> \o CTime,
                                       <<">", " ">> \o cli.ibuf >> \o lines,
                                    CLI_MAXLINES)
              /\ cli'.ihist = RingAppend(cli.ihist, cli.ibuf, CLI_MAXHIST)
              /\ cli'.ibuf = <<>>
              /\ cli'.ibpos = 0
              /\ cli'.ibmin = 0
        /\ (cli.ibuf = <<>>) =>
              /\ cliSent' = cliSent
              /\ cli'.obuf = RingExtend(cli.obuf, <<MarkerLine, <<>> >>, CLI_MAXLINES)
              /\ cli'.ihist = cli.ihist
              /\ cli'.ibuf = <<>>]_vars

\* C20, as stated: no call of execute ends by raising.
C20_CliNeverRaises == cliOp # "raised"

(***************************************************************************)
(* Claims about the program (Spec)                                         *)
(***************************************************************************)
\* The step is one pass of the key dispatcher.
IsKeyStep == pc = "getch" /\ pc' \in {"loop", "finally"} /\ lastKey' # lastKey

\* C1, as stated: after the handshake no command is sent while the reply to
\* the command before it has not been read up to the prompt.
C1_OneRequestInFlight == ~sock.overlap

\* C4: in read-only mode no command that changes the server and no CLI line
\* is ever sent (what goes out is the handshake, show info, show stat and the
\* quit of close), and a pass of the dispatcher on an admin key sends
\* nothing, changes neither mode nor overlay nor input, and raises nothing.
C4_ReadOnlySendsNoAdmin ==
    /\ [](ro => ~sock.admin)
    /\ [][(ro /\ IsKeyStep /\ lastKey' = "admin") =>
            /\ pc' = "loop"
            /\ exc' = exc
            /\ sock' = sock
            /\ cmid' = cmid /\ pmid' = pmid
            /\ hotkeys' = hotkeys
            /\ input' = input]_vars

\* In read-only mode an admin key was pressed in a stat mode after a refresh.
C4_Witness ==
    /\ ro
    /\ pc = "loop"
    /\ lastKey = "admin"
    /\ cmid \in 1..4
    /\ sock.waits = 2 /\ sock.pending = 0
    /\ ~update_stat

\* C5: in read-only mode neither the current nor the previous mode is 5.
C5_ReadOnlyNeverCli == ro => (cmid # 5 /\ pmid # 5)

\* In read-only mode the key 5 (or ESC 5) was pressed and a stat mode or the
\* help is shown.
C5_Witness ==
    /\ ro
    /\ pc = "loop"
    /\ lastKey = "cli"
    /\ cmid \in 0..4

\* C8, as stated: the first command is prompt, set timeout cli follows the
\* first wait, nothing else is sent before both waits have completed, and a
\* wait that fails ends connect with a socket error.
C8_HandshakeBeforeAnyCommand ==
    /\ sock.early \subseteq {"prompt", "set timeout cli"}
    /\ ("set timeout cli" \in sock.early) => ("prompt" \in sock.early)
    /\ (sock.waits >= 1) => ("prompt" \in sock.early)
    /\ (sock.waits = 2) => ("set timeout cli" \in sock.early)
    /\ (exc.at \in {"hs_wait1", "hs_wait2"} /\ exc.kind # "SystemExit")
           => (exc.kind = "SocketError" /\ sock.waits < 2)

(***************************************************************************)
(* Claims about the key dispatcher (SpecKeys)                              *)
(***************************************************************************)
\* The step handles a key (getch returned one).
IsHkStep == hkCount' = hkCount + 1 /\ hkKey'[1] # "NONE"

\* The key the dispatcher routes in the step.
HkRouted == EffectiveKey(hkKey'[1], hkKey'[2])

\* The row under the cursor is one a hotkey command can act on.
HkRowSelected == hkRow.stat /\ hkRow.iid > 0 /\ hkRow.sid > 0

\* C15, as stated: with the overlay flag on, one admin function key issues
\* its command and leaves the flag off, and any other single key leaves the
\* flag off.
C15_OverlayIsTransient ==
    [][(IsHkStep /\ hkScreen.hotkeys /\ hkKey'[2] = "NONE") =>
        /\ ~hkScreen'.hotkeys
        /\ (/\ hkKey'[1] \in FKeys
            /\ HkRowSelected /\ hkRow.named
            /\ HotkeyCmdline(hkKey'[1], hkRow) # NoCommand)
               => hkScreen'.sent = <<HotkeyCmdline(hkKey'[1], hkRow)>>]_vars

\* The step took a hotkey action: it showed the overlay, pasted the
\* identifier of the row into the CLI, or ran a command on the row.
HotkeyActed ==
    \/ ~hkScreen.hotkeys /\ hkScreen'.hotkeys
    \/ hkScreen'.notify
    \/ HkRouted = "SP" /\ hkScreen.cmid \in 1..4 /\ hkScreen'.cmid = 5

\* The step left what the screen shows and what went to the server alone.
HkNothingDone ==
    /\ hkScreen'.sent = <<>>
    /\ hkScreen'.sock = hkScreen.sock
    /\ hkScreen'.hotkeys = hkScreen.hotkeys
    /\ ~hkScreen'.update_display
    /\ ~hkScreen'.notify
    /\ hkScreen'.cmid = hkScreen.cmid
    /\ hkScreen'.pmid = hkScreen.pmid
    /\ hkScreen'.input = hkScreen.input
    /\ hkScreen'.raised = "none"

\* C16, as stated: a hotkey action (overlay, paste, F4..F10 command) happens
\* only in a stat mode on a selected row with iid > 0 and sid > 0; in a stat
\* mode on any other row the keys ENTER, SPACE and F4..F10 send nothing,
\* change nothing of the display and raise nothing.
C16_HotkeysNeedSelectedRow ==
    [][(IsHkStep /\ ~hkScreen.hotkeys /\ HkRouted \in AdminKeys) =>
        /\ HotkeyActed => (hkScreen.cmid \in 1..4 /\ HkRowSelected)
        /\ (hkScreen.cmid \in 1..4 /\ hkKey'[1] # "ESC" /\ ~HkRowSelected)
              => HkNothingDone]_vars

\* min(256, max(0, n))
ClampWeight(n) == Min(256, Max(0, n))

\* The change of weight the keys F5..F8 ask for.
WeightDelta(c) ==
    CASE c = "KEY_F5" -> -10 [] c = "KEY_F6" -> -1
      [] c = "KEY_F7" -> 1 [] c = "KEY_F8" -> 10

\* C17, as stated: on a selected row of any integer weight F5/F6/F7/F8 emit
\* 'set weight pxname/svname N' with N the weight clamped to [0,256], changed
\* by -10/-1/+1/+10 and clamped again, and emit nothing when the weight is at
\* the bound in the direction of the change.
C17_WeightStaysInRange ==
    [][(/\ IsHkStep
        /\ hkScreen.cmid \in 1..4
        /\ hkKey'[1] \in {"KEY_F5", "KEY_F6", "KEY_F7", "KEY_F8"}
        /\ HkRowSelected /\ hkRow.named) =>
        LET d == WeightDelta(hkKey'[1])
            atBound == IF d < 0 THEN hkRow.weight <= 0 ELSE hkRow.weight >= 256
            N == ClampWeight(ClampWeight(hkRow.weight) + d)
        IN  /\ hkScreen'.sent =
                  IF atBound THEN <<>> ELSE <<Cmdline("set weight", N, FALSE)>>
            /\ \A i \in 1..Len(hkScreen'.sent) :
                  hkScreen'.sent[i].weight \in 0..256]_vars

(***************************************************************************)
(* Claims about the stat view (SpecView)                                   *)
(***************************************************************************)
\* The step from the head of the loop to getch or to the exit in which
\* update_data ran.
IsDataRefresh ==
    /\ vloop.pc = "loop"
    /\ vloop'.pc # "loop"
    /\ vloop.update_stat \/ vloop.i = Iterations

\* The warning w waits in the queue of the screen or is shown as a banner.
Captured(scr, w) ==
    \/ \E i \in 1..Len(scr.exceptions) : scr.exceptions[i] = w
    \/ \E i \in 1..Len(scr.lines) :
          scr.lines[i].kind = "banner" /\ scr.lines[i].warn = w

\* The counts of two refreshes differ and none of them is zero.
CountsChanged(old, new) ==
    /\ new.pxcount # old.pxcount \/ new.svcount # old.svcount
    /\ old.pxcount > 0 /\ old.svcount > 0
    /\ new.pxcount > 0 /\ new.svcount > 0

\* C11: a refresh whose reply parses raises the config-changed warning
\* exactly when the proxy count or the service count differs from that of
\* the previous refresh and the previous and the current counts are nonzero;
\* the warning carries the deltas current minus previous of both counts, it
\* is captured by update_data and the loop goes on to read the keys.
C11_ConfigChangedWarning ==
    [][(IsDataRefresh /\ vloop'.pc # "exited") =>
        /\ (vwarned'.msg = "config changed") <=> CountsChanged(vdata, vdata')
        /\ vwarned'.msg = "config changed" =>
              /\ vwarned' = ConfigChanged(vdata'.pxcount - vdata.pxcount,
                                          vdata'.svcount - vdata.svcount)
              /\ Captured(vscreen', vwarned')
              /\ vloop'.pc = "getch"]_vars

\* A refresh that found one proxy less than the one before has raised the
\* warning 'proxy -1, service -1', which the stat view shows as its banner.
C11_Witness ==
    /\ vloop.pc = "getch"
    /\ vwarned = ConfigChanged(0 - 1, 0 - 1)
    /\ vdata.pxcount = 1
    /\ vscreen.cmid = 1
    /\ vscreen.lines = <<BannerLine(vwarned)>>

\* The step from the head of the loop to getch in which update_lines ran.
IsLinesRefresh ==
    /\ vloop.pc = "loop"
    /\ vloop'.pc = "getch"
    /\ vloop.update_display \/ vloop.i = Iterations
    /\ \/ vloop.update_lines
       \/ vloop.i = Iterations /\ vscreen.cmid \in 1..4

\* C12: a refresh whose reply parses and holds no service row raises the
\* warning 'no stat data available', which update_data captures while the
\* loop goes on; the update_lines that follows, in the same pass or in a
\* later one, empties the queue and produces banner lines only, the warning
\* among them and none carrying a stat record.
C12_NoDataIsBannerOnly ==
    [][/\ (IsDataRefresh /\ vloop'.pc # "exited" /\ vdata'.svcount = 0) =>
              /\ vwarned' = NoStatData
              /\ Captured(vscreen', NoStatData)
              /\ vloop'.pc = "getch"
       /\ (/\ IsLinesRefresh
           /\ \/ \E i \in 1..Len(vscreen.exceptions) :
                    vscreen.exceptions[i] = NoStatData
              \/ IsDataRefresh /\ vwarned' = NoStatData) =>
              /\ vscreen'.exceptions = <<>>
              /\ \E i \in 1..Len(vscreen'.lines) :
                    vscreen'.lines[i] = BannerLine(NoStatData)
              /\ \A i \in 1..Len(vscreen'.lines) :
                    /\ vscreen'.lines[i].kind = "banner"
                    /\ vscreen'.lines[i].stat = NoSvStat]_vars

\* A refresh in the stat view has found no row: the warning was raised and
\* the view shows its banner alone.
C12_Witness ==
    /\ vloop.pc = "getch"
    /\ vloop.i = 0
    /\ vwarned = NoStatData
    /\ vdata.svcount = 0
    /\ vscreen.cmid = 1
    /\ vscreen.exceptions = <<>>
    /\ vscreen.lines = <<BannerLine(NoStatData)>>

\* A line of the view is a banner.
BannerShown(scr) == \E i \in 1..Len(scr.lines) : scr.lines[i].kind = "banner"

\* C13, as stated: once the last refresh has raised no warning, no warning
\* remains queued and the stat view, when it is the view painted, shows no
\* banner, whatever modes the screen went through between the refreshes.
C13_BannerOnlyUntilGoodRefresh ==
    (vloop.pc = "getch" /\ vwarned = NoWarning) =>
        /\ vscreen.exceptions = <<>>
        /\ vscreen.cmid \in 1..4 => ~BannerShown(vscreen)

\* A line of the view is painted as 'updating...'.
MarkShown(scr) == \E i \in 1..Len(scr.lines) : scr.lines[i].message

\* C18, as stated: in a painted stat view, a row shows 'updating...' from a
\* hotkey command until the next update_data, and no row shows it once
\* update_data has run after the command, whatever modes the screen went
\* through in between.
C18_UpdatingUntilNextRefresh ==
    (vloop.pc = "getch" /\ vscreen.cmid \in 1..4) =>
        (MarkShown(vscreen) <=> vacted)

(***************************************************************************)
(* Claims about the passes of mainloop (Spec)                              *)
(***************************************************************************)
\* The places of one pass of the loop, in the order the body of the loop
\* holds them: the interval test, update_data (update_info, update_stat),
\* update_lines and the paint, the read of the key.
Phase(p) ==
    CASE p = "loop" -> 0
      [] p \in {"info_send", "info_recv", "stat_send", "stat_recv"} -> 1
      [] p = "draw" -> 2
      [] p = "getch" -> 3
      [] OTHER -> 4

\* The step that sends a periodic 'show info' or 'show stat'.
IsPeriodicSend ==
    /\ pc \in {"info_send", "stat_send"}
    /\ pc' \in {"info_recv", "stat_recv"}

IsWhitelisted(text) == \A i \in 1..Len(text) : text[i] \in CLI_INPUT_RE

\* C21: after any sequence of input operations (putc, puts from the paste
\* key, delete left and right, history up and down, execute) ibuf holds at
\* most CLI_INPUT_LIMIT (200) characters, all of them of the whitelist
\* CLI_INPUT_RE, and a putc or puts given a character outside the whitelist
\* leaves the buffer as it was.
C21_InputBufferBoundedAndWhitelisted ==
    /\ [](Len(ed.ibuf) <= CLI_INPUT_LIMIT /\ IsWhitelisted(ed.ibuf))
    /\ [][edOp'.name \in {"putc", "puts"} /\ ~IsWhitelisted(edOp'.text)
            => ed'.ibuf = ed.ibuf]_vars

\* A full buffer of 200 characters on which a character outside the
\* whitelist was typed.
C21_Witness ==
    /\ edOp.name = "putc"
    /\ edOp.text = <<"!">>
    /\ Len(ed.ibuf) = CLI_INPUT_LIMIT

\* The step updates the CLI output: an execute (command run, marker line
\* or rejection) or a hotkey command that returned, or a resize in CLI mode
\* that stored a new size.
OutputUpdated ==
    \/ edOp'.name \in {"execute", "hotkey"} /\ ~edOp'.raised
    \/ /\ edOp'.name = "resize" /\ ~edOp'.raised
       /\ term.mid = 5
       /\ (term'.xmax # term.xmax \/ term'.ymax # term.ymax)

\* C22: after every update of the CLI output (update_screenlines on the
\* execution of a command, the marker line, a rejection, a hotkey command
\* and a resize in CLI mode) screenlines is obuf wrapped at the stored width
\* and ypos == len(screenlines): the view is at the bottom again.
C22_UpdateShowsBottom ==
    [][OutputUpdated =>
          /\ ed'.screenlines = WrappedLines(ed'.obuf, term'.xmax)
          /\ ed'.ypos = Len(ed'.screenlines)]_vars

\* A long command line was run: its echo is wrapped, and the view that
\* follows stands at the bottom.
C22_Witness ==
    /\ edOp.name = "execute" /\ ~edOp.raised
    /\ Len(ed.screenlines) > Len(ed.obuf)
    /\ ed.ypos = Len(ed.screenlines)

\* C23: in CLI mode each PgUp / PgDn moves ypos by one output span (ospan),
\* clamped to [ospan, len(screenlines)], so that
\* ospan <= ypos <= len(screenlines) after every scroll.
C23_PageMovesOneSpan ==
    [][edOp'.name \in {"page up", "page down"} =>
          /\ ed'.ypos = IF edOp'.name = "page up"
                        THEN Max(ospan(term.ymax), ed.ypos - ospan(term.ymax))
                        ELSE Min(Len(ed.screenlines), ed.ypos + ospan(term.ymax))
          /\ ospan(term.ymax) <= ed'.ypos
          /\ ed'.ypos <= Len(ed'.screenlines)]_vars

TooSmall(t) == t.xmax < SCREEN_XMIN \/ t.ymax < SCREEN_YMIN

\* C27: after every resize that returns normally 78 <= xmax <= 200 and
\* 20 <= ymax <= 100 and the resized flag is cleared; on a terminal smaller
\* than 78x20 resize raises (fatally) and the stored size is unchanged.
C27_ResizeKeepsSizeInRange ==
    [][edOp'.name = "resize" =>
          IF edOp'.raised
          THEN TooSmall(tty) /\ term'.xmax = term.xmax /\ term'.ymax = term.ymax
          ELSE /\ ~TooSmall(tty)
               /\ SCREEN_XMIN <= term'.xmax /\ term'.xmax <= SCREEN_XMAX
               /\ SCREEN_YMIN <= term'.ymax /\ term'.ymax <= SCREEN_YMAX
               /\ ~term'.resized
               /\ ~resized(term', tty')]_vars

\* A resize on a terminal beyond both maxima returned.
C27_Witness ==
    /\ edOp.name = "resize" /\ ~edOp.raised
    /\ tty.xmax > SCREEN_XMAX /\ tty.ymax > SCREEN_YMAX
    /\ term.xmax = SCREEN_XMAX /\ term.ymax = SCREEN_YMAX

\* C34: whenever the CLI output pane is displayed, every entry of
\* screenlines is no longer than the width of the terminal the program has
\* stored: obuf was wrapped again to that width after any sequence of
\* resizes and mode switches, also after a resize in another mode.
C34_ScreenlinesFitWidth ==
    (term.mid = 5 /\ ~edOp.raised)
        => \A i \in 1..Len(ed.screenlines) : Len(ed.screenlines[i]) <= term.xmax

\* The input differs from the history entry that is shown, ihist[-1].
InputModified(c) ==
    c.ibuf # <<>> /\ c.ihist # <<>> /\ c.ibuf # c.ihist[Len(c.ihist)]

\* C35: history up and history down never lose a modified input: the key
\* appends the input it moves away from to the history first, and the
\* opposite history key brings that input back.
C35_HistoryKeepsModifiedInput ==
    [][(edOp'.name \in {"prev", "next"} /\ InputModified(ed)) =>
          /\ \E i \in 1..Len(ed'.ihist) : ed'.ihist[i] = ed.ibuf
          /\ ed.ibuf = IF edOp'.name = "prev"
                       THEN next(ed', term.xmax).ibuf
                       ELSE prev(ed', term.xmax).ibuf]_vars

\* C39: after any sequence of editor operations and resizes the caret stays
\* inside the input and inside its visible span:
\* 0 <= ibmin <= ibpos <= len(ibuf) and ibpos <= ibmin + ispan.
C39_CaretInsideSpan ==
    ~edOp.raised =>
        /\ 0 <= ed.ibmin
        /\ ed.ibmin <= ed.ibpos
        /\ ed.ibpos <= Len(ed.ibuf)
        /\ ed.ibpos <= ibmax(ed, term.xmax)

(***************************************************************************)
(* Claims about the modes and the exit of the program (Spec)               *)
(***************************************************************************)
\* C40: the hotkey footer is on only while a stat mode is displayed: in
\* every reachable state, hotkeys implies that the current mode is one of
\* 1..4 and that the client is not read-only; the flag is never still set
\* after a switch to HELP or to the CLI.
C40_HotkeysOnlyInStatModes == hotkeys => (cmid \in 1..4 /\ ~ro)

\* The footer is on after the pass of an administrative key: ENTER on a
\* selected row has put it on, or F4..F10 has left it on.
C40_FooterShown == hotkeys /\ lastKey = "admin" /\ pc = "loop"

\* The pass handled TAB or KEY_BTAB: screen.cycle_mode(1) or cycle_mode(-1)
IsCycleStep == pc = "getch" /\ pc' = "loop" /\ lastKey' \in {"tab", "btab"}

\* C24: cycle_mode(+1 / -1) wraps within [1..border], border being 4 in a
\* read-only session and 5 otherwise: from border, +1 gives 1; from 1, -1
\* gives border; otherwise the mode changes by exactly 1; from HELP (0) it
\* always lands on 1; the result is always in [1..border].
C24_CycleModeWraps ==
    [][IsCycleStep =>
          LET border == IF ro THEN 4 ELSE 5
          IN  /\ cmid' \in 1..border
              /\ cmid = 0 => cmid' = 1
              /\ (cmid # 0 /\ lastKey' = "tab") =>
                    cmid' = IF cmid = border THEN 1 ELSE cmid + 1
              /\ (cmid # 0 /\ lastKey' = "btab") =>
                    cmid' = IF cmid = 1 THEN border ELSE cmid - 1]_vars

\* A read-only session went from mode 1 back to its border, mode 4.
C24_Witness == ro /\ lastKey = "btab" /\ pmid = 1 /\ cmid = 4 /\ pc = "loop"

(***************************************************************************)
(* Claims about the __main__ block (SpecMain)                              *)
(***************************************************************************)
\* The exit code the claim gives to each kind of event.
ClaimedExitCode(cause) ==
    CASE cause \in {"quit key", "ctrl-c", "SIGINT", "SIGTERM"} -> 0
      [] cause \in {"stat filter syntax", "proxy filter syntax", "garbage field",
                    "missing info key", "stale filter", "proxy not found",
                    "screen too small"} -> 1
      [] cause \in {"connect failure", "end of stream", "timeout"} -> 2
      [] OTHER -> -1

\* C25: every run ends with the exit code fixed by the kind of event: quit
\* key, Ctrl-C / SIGINT or SIGTERM give 0; value, runtime and parse errors
\* (garbage field, missing info key, stale filter, proxy not found, screen
\* too small) give 1; socket and protocol errors (connect failure, end of
\* stream, timeout) give 2; a curses error in the main loop does not end the
\* run: the terminal is reset and recovered and the loop is entered again.
C25_ExitCodeByEvent ==
    /\ [](mrun.pc = "exited" /\ ClaimedExitCode(mrun.cause) # -1
             => mrun.exitcode = ClaimedExitCode(mrun.cause))
    /\ [][mrun.pc = "mainloop" /\ mrun'.cause = "curses error"
             => mrun'.pc = "mainloop" /\ mrun'.exitcode = -1]_vars

\* The options or the filter texts are not valid.
InputInvalid(o) ==
    \/ ~(1 <= o.interval /\ o.interval <= 30)
    \/ ~(1 <= o.mode /\ o.mode <= 5)
    \/ Len(o.stat_filter) + Len(o.proxy_filter) > 50
    \/ o.ro /\ o.mode = 5
    \/ \E f \in FilterSet(o.stat_filter) : ~HAPROXY_STAT_FILTER_RE(f)
    \/ \E f \in FilterSet(o.proxy_filter) : ~HAPROXY_STAT_PROXY_FILTER_RE(f)

\* C26: every failure of the validation of the input (interval outside
\* 1..30, mode outside 1..5, more than 50 filters, -n with -m 5, a stat
\* filter or a proxy filter of bad syntax) ends the program before the
\* terminal is initialized (before Screen.setup runs).
C26_ValidationBeforeTerminal == InputInvalid(mopts) => ~mrun.active

(***************************************************************************)
(* Claims about the column widths (SpecSync)                               *)
(***************************************************************************)
RECURSIVE SumOf(_)
SumOf(ws) == IF ws = <<>> THEN 0 ELSE Head(ws) + SumOf(Tail(ws))

\* C28: after ScreenMode.sync at any xmax in [78, 200] every column of every
\* stat mode has minwidth <= width, width <= maxwidth when maxwidth # 0, and
\* the widths plus one separator between adjacent columns sum to at most
\* xmax.
C28_WidthsWithinBounds ==
    synced \in 1..4 =>
       LET cols == SCREEN_MODES[synced]
           ws == colw[synced]
       IN  /\ \A i \in 1..Len(cols) :
                /\ cols[i].minwidth <= ws[i]
                /\ cols[i].maxwidth # 0 => ws[i] <= cols[i].maxwidth
           /\ SumOf(ws) + (Len(cols) - 1) <= shown.xmax

(***************************************************************************)
(* Claims about update_stat with filters (SpecFilter)                      *)
(***************************************************************************)
\* The key of a row in the table of its proxy
RowKey(row) ==
    IF IntOf(row.type) = 0 \/ IntOf(row.type) = 1
    THEN NameKey(row.svname) ELSE SidKey(IntOf(row.sid))

\* The rows the server returned for the filters at the last update_stat
ReturnedRows ==
    {fconf[i] : i \in {j \in 1..Len(fconf) :
                          \E f \in fdata.filters : Selects(f, fconf[j])}}

\* C30: after update_stat with registered filters (below the service cap)
\* the stat table is the merge of the records returned for all filters: no
\* record returned for one filter is lost because another filter returned
\* rows of the same proxy, and pxcount and svcount are the numbers of
\* proxies and of records of the merged table.
C30_FilteredTableIsMerge ==
    (fcalls > 0 /\ fraised # "RuntimeError") =>
       /\ \A row \in ReturnedRows :
             /\ IntOf(row.iid) \in DOMAIN fdata.stat
             /\ RowKey(row) \in DOMAIN fdata.stat[IntOf(row.iid)]
             /\ fdata.stat[IntOf(row.iid)][RowKey(row)] = SvStat(row)
       /\ fdata.pxcount = Cardinality(DOMAIN fdata.stat)
       /\ fdata.svcount = Materialized(fdata.stat)

(***************************************************************************)
(* Claims about register_proxy_filter (SpecProxy)                          *)
(***************************************************************************)
\* The iid of the rows of the reply that carry the name.
ProxiesNamed(lines, pxname) ==
    {IntOf(lines[i].iid) : i \in {j \in Accepted(lines) : lines[j].pxname = pxname}}

\* C31: register_proxy_filter registers, for every requested name that is
\* the pxname of some row of the reply, the filter (iid, -1, -1) of that
\* proxy, and fails with 'proxy not found' only when some requested name is
\* the pxname of no row of the reply, whatever the number of services.
C31_ProxyNamesResolved ==
    pdone =>
       /\ preg.raised = "proxy not found"
             => \E n \in preq : ProxiesNamed(preply, n) = {}
       /\ preg.raised = ""
             => \A n \in preq :
                   \E iid \in ProxiesNamed(preply, n) : <<iid, -1, -1>> \in preg.filters

(***************************************************************************)
(* Claims about the overflow banner of the stat view (SpecLimit)           *)
(***************************************************************************)
\* The lines of the kind found on the screen.
LinesOfKind(kind) == {i \in 1..Len(vscreen.lines) : vscreen.lines[i].kind = kind}

\* A pass of mainloop that calls update_data and update_lines.
RefreshesLines ==
    /\ vloop.pc = "loop" /\ vloop'.pc = "getch"
    /\ vloop.update_stat \/ vloop.i = Iterations
    /\ vloop.update_lines \/ (vloop.i = Iterations /\ vscreen.cmid \in 1..4)

\* The lines on the screen were built from the stats, not from warnings.
LinesFromData == LinesOfKind("banner") = {}

\* Every service row of the reply has its line on the screen.
AllRowsShown == Cardinality(LinesOfKind("stat")) = vdata.svcount

\* C33: update_lines appends the overflow banner to the stat view exactly
\* when the last show stat reply held more service rows than were
\* materialized, and never when every row of the reply was materialized.
C33_BannerIffCapHit ==
    [][(RefreshesLines /\ LinesFromData')
          => (LinesOfKind("limit") # {} <=> ~AllRowsShown)']_vars
\* C38: the periodic refresh is not starved or skipped by keyboard input:
\* the tick counter never passes the interval count, and whatever keys are
\* pressed, from every getch on the program comes to the next update_data
\* (which starts with the send of show info) unless it ends before.
C38_RefreshNotStarved ==
    /\ [](tick <= Iterations)
    /\ [](pc = "getch" => <>(pc \in {"info_send", "finally", "exited"}))

(***************************************************************************)
(* Claims about the cursor of the stat view (SpecCursor)                   *)
(***************************************************************************)
\* C36: in every stat mode, after any sequence of cursor moves, refreshes
\* that grow or shrink the line list, banners, mode switches and resizes,
\* the cursor stays inside the viewport and selects an existing line:
\* 0 <= cpos <= cmax, 0 <= vmin and vmin + cpos < len(lines).
C36_CursorInsideView ==
    cur.mid \in 1..4 =>
       /\ 0 <= cur.cpos /\ cur.cpos <= Screen_cmax(cur)
       /\ 0 <= cur.vmin
       /\ Screen_vpos(cur) < cur.nlines

(***************************************************************************)
(* Claims about SIGWINCH (SpecWinch)                                       *)
(***************************************************************************)
\* C37: no window-resize notification is lost, wherever the handler
\* interrupts the main thread: every notification is followed by a resize
\* that reads the size of the terminal at or after it, so that, once the
\* operator leaves the terminal alone, the stored size is the size of the
\* terminal (as getmaxyx reports it) and stays so.
C37_NoResizeLost == <>[](win.stored = getmaxyx(winTty))

====
